---- MODULE Spec2Model ----
(***************************************************************************)
(* Model of the bearer-token stage of oauth2-proxy                         *)
(* (pkg/middleware/jwt_session.go): the jwtSession middleware, its         *)
(* getJwtSession and findBearerToken methods, and the loaders of           *)
(* pkg/apis/middleware/session.go.                                         *)
(*                                                                         *)
(* A Go string is modelled as the sequence of its bytes (ASCII codes), so  *)
(* that splitting, base64 decoding and the JWT regular expression are      *)
(* computed as the code computes them.                                     *)
(***************************************************************************)
EXTENDS Integers, Sequences, FiniteSets, TLC

\* ------------------------------------------------------------------ bounds

\* The largest number of configured (verifier, converter) loaders.
MaxLoaders == 2

\* ----------------------------------------------------------- string literals

\* "" (the empty string; also the value of an absent header)
EmptyString == << >>

\* " " (the separator of strings.SplitN(auth, " ", 2))
SpaceSep == <<32>>

\* ":" (the separator of strings.SplitN(string(b), ":", 2))
ColonSep == <<58>>

\* "Bearer"
BearerScheme == <<66, 101, 97, 114, 101, 114>>

\* "Basic"
BasicScheme == <<66, 97, 115, 105, 99>>

\* "x-oauth-basic"
MagicPassword == <<120, 45, 111, 97, 117, 116, 104, 45, 98, 97, 115, 105, 99>>

\* "eyJ" (the literal prefix of the first two parts in jwtRegexFormat)
EyJ == <<101, 121, 74>>

\* "unable to verify jwt token "
MsgUnableToVerify ==
    <<117, 110, 97, 98, 108, 101, 32, 116, 111, 32, 118, 101, 114, 105, 102,
      121, 32, 106, 119, 116, 32, 116, 111, 107, 101, 110, 32>>

\* "invalid authorization header "
MsgInvalidHeader ==
    <<105, 110, 118, 97, 108, 105, 100, 32, 97, 117, 116, 104, 111, 114, 105,
      122, 97, 116, 105, 111, 110, 32, 104, 101, 97, 100, 101, 114, 32>>

\* "invalid format "
MsgInvalidFormat ==
    <<105, 110, 118, 97, 108, 105, 100, 32, 102, 111, 114, 109, 97, 116, 32>>

\* "no valid bearer token found in authorization header"
MsgNoValidBearer ==
    <<110, 111, 32, 118, 97, 108, 105, 100, 32, 98, 101, 97, 114, 101, 114,
      32, 116, 111, 107, 101, 110, 32, 102, 111, 117, 110, 100, 32, 105, 110,
      32, 97, 117, 116, 104, 111, 114, 105, 122, 97, 116, 105, 111, 110, 32,
      104, 101, 97, 100, 101, 114>>

\* "illegal base64 data at input byte" (base64.CorruptInputError; the byte
\* offset that follows in Go's message is left out)
MsgIllegalBase64 ==
    <<105, 108, 108, 101, 103, 97, 108, 32, 98, 97, 115, 101, 54, 52, 32, 100,
      97, 116, 97, 32, 97, 116, 32, 105, 110, 112, 117, 116, 32, 98, 121, 116,
      101>>

\* "token conversion failed" (the error of a converter that fails)
MsgConversionFailed ==
    <<116, 111, 107, 101, 110, 32, 99, 111, 110, 118, 101, 114, 115, 105, 111,
      110, 32, 102, 97, 105, 108, 101, 100>>

\* ------------------------------------------------------------ Go's strings

\* The least index >= i at which sep (one byte) occurs in s, or 0.
RECURSIVE IndexFrom(_, _, _)
IndexFrom(s, sep, i) ==
    IF i > Len(s) THEN 0
    ELSE IF s[i] = sep[1] THEN i
    ELSE IndexFrom(s, sep, i + 1)

\* strings.SplitN(s, sep, 2) for a one-byte separator: one part when sep does
\* not occur in s, else the text before its first occurrence and the rest.
SplitN2(s, sep) ==
    LET i == IndexFrom(s, sep, 1)
    IN  IF i = 0 THEN <<s>>
        ELSE <<SubSeq(s, 1, i - 1), SubSeq(s, i + 1, Len(s))>>

\* ------------------------------------------------------- jwtRegexFormat

\* [a-zA-Z0-9_-]
IsJwtChar(c) ==
    \/ c \in 97..122
    \/ c \in 65..90
    \/ c \in 48..57
    \/ c = 95
    \/ c = 45

\* [a-zA-Z0-9_-]* over the whole of s
AllJwtChars(s) == \A i \in 1..Len(s) : IsJwtChar(s[i])

\* eyJ[a-zA-Z0-9_-]* over the whole of s
IsEyJPart(s) ==
    /\ Len(s) >= 3
    /\ SubSeq(s, 1, 3) = EyJ
    /\ AllJwtChars(s)

\* jwtRegex.MatchString(s) for ^eyJ[a-zA-Z0-9_-]*\.eyJ[a-zA-Z0-9_-]*\.[a-zA-Z0-9_-]+$
\* The character class excludes ".", so the two literal dots are the only
\* dots of a matching string.
jwtRegexMatchString(s) ==
    /\ Cardinality({i \in 1..Len(s) : s[i] = 46}) = 2
    /\ \E i \in 1..Len(s) : \E j \in (i + 1)..Len(s) :
          /\ s[i] = 46
          /\ s[j] = 46
          /\ IsEyJPart(SubSeq(s, 1, i - 1))
          /\ IsEyJPart(SubSeq(s, i + 1, j - 1))
          /\ j < Len(s)
          /\ AllJwtChars(SubSeq(s, j + 1, Len(s)))

\* ------------------------------------------------- encoding/base64 (Std)

\* The value of a byte in the standard alphabet A-Z a-z 0-9 + /, or -1.
B64Value(c) ==
    IF c \in 65..90 THEN c - 65
    ELSE IF c \in 97..122 THEN c - 97 + 26
    ELSE IF c \in 48..57 THEN c - 48 + 52
    ELSE IF c = 43 THEN 62
    ELSE IF c = 47 THEN 63
    ELSE -1

\* The byte of the standard alphabet with value v (0..63).
B64Char(v) ==
    IF v < 26 THEN 65 + v
    ELSE IF v < 52 THEN 97 + (v - 26)
    ELSE IF v < 62 THEN 48 + (v - 52)
    ELSE IF v = 62 THEN 43
    ELSE 47

\* s without "\r" and "\n", which the decoder skips
RECURSIVE StripNewlines(_)
StripNewlines(s) ==
    IF s = << >> THEN << >>
    ELSE IF Head(s) = 13 \/ Head(s) = 10 THEN StripNewlines(Tail(s))
    ELSE <<Head(s)>> \o StripNewlines(Tail(s))

\* One quantum of four input bytes; last: it is the final quantum, the only
\* one that may end in "=" or "==".
DecodeQuantum(q, last) ==
    LET v == [i \in 1..4 |-> B64Value(q[i])]
    IN  IF v[1] < 0 \/ v[2] < 0 THEN [ok |-> FALSE, bytes |-> << >>]
        ELSE IF v[3] >= 0 /\ v[4] >= 0
        THEN LET n == v[1] * 262144 + v[2] * 4096 + v[3] * 64 + v[4]
             IN  [ok |-> TRUE,
                  bytes |-> <<n \div 65536, (n \div 256) % 256, n % 256>>]
        ELSE IF last /\ v[3] >= 0 /\ q[4] = 61
        THEN LET n == v[1] * 262144 + v[2] * 4096 + v[3] * 64
             IN  [ok |-> TRUE, bytes |-> <<n \div 65536, (n \div 256) % 256>>]
        ELSE IF last /\ q[3] = 61 /\ q[4] = 61
        THEN LET n == v[1] * 262144 + v[2] * 4096
             IN  [ok |-> TRUE, bytes |-> <<n \div 65536>>]
        ELSE [ok |-> FALSE, bytes |-> << >>]

\* The decoding d of a quantum followed by the decoding r of the rest.
JoinDecoded(d, r) ==
    IF d.ok /\ r.ok THEN [ok |-> TRUE, bytes |-> d.bytes \o r.bytes]
    ELSE [ok |-> FALSE, bytes |-> << >>]

\* The decoding of t, quantum by quantum: padded, so a trailing part of
\* fewer than four bytes is corrupt.
RECURSIVE DecodeQuanta(_)
DecodeQuanta(t) ==
    IF t = << >> THEN [ok |-> TRUE, bytes |-> << >>]
    ELSE IF Len(t) < 4 THEN [ok |-> FALSE, bytes |-> << >>]
    ELSE JoinDecoded(DecodeQuantum(SubSeq(t, 1, 4), Len(t) = 4),
                     DecodeQuanta(SubSeq(t, 5, Len(t))))

\* base64.StdEncoding.DecodeString(s): ok is FALSE for a CorruptInputError.
StdEncodingDecodeString(s) == DecodeQuanta(StripNewlines(s))

\* base64.StdEncoding.EncodeToString(b): how a client builds the credential
\* of a Basic header.
RECURSIVE StdEncodingEncodeToString(_)
StdEncodingEncodeToString(b) ==
    IF b = << >> THEN << >>
    ELSE IF Len(b) = 1
    THEN LET n == b[1] * 65536
         IN  <<B64Char(n \div 262144), B64Char((n \div 4096) % 64), 61, 61>>
    ELSE IF Len(b) = 2
    THEN LET n == b[1] * 65536 + b[2] * 256
         IN  <<B64Char(n \div 262144), B64Char((n \div 4096) % 64),
               B64Char((n \div 64) % 64), 61>>
    ELSE LET n == b[1] * 65536 + b[2] * 256 + b[3]
         IN  <<B64Char(n \div 262144), B64Char((n \div 4096) % 64),
               B64Char((n \div 64) % 64), B64Char(n % 64)>>
             \o StdEncodingEncodeToString(SubSeq(b, 4, Len(b)))

\* "Error retrieving session from token in Authorization header: "
MsgErrorRetrieving ==
    <<69, 114, 114, 111, 114, 32, 114, 101, 116, 114, 105, 101, 118, 105, 110,
      103, 32, 115, 101, 115, 115, 105, 111, 110, 32, 102, 114, 111, 109, 32,
      116, 111, 107, 101, 110, 32, 105, 110, 32, 65, 117, 116, 104, 111, 114,
      105, 122, 97, 116, 105, 111, 110, 32, 104, 101, 97, 100, 101, 114, 58,
      32>>

\* ------------------------------------------------------- errors, sessions

\* A nil error.
NilError == [isNil |-> TRUE, msg |-> << >>]

\* fmt.Errorf: an error with the formatted message msg.
Errorf(msg) == [isNil |-> FALSE, msg |-> msg]

\* A nil *sessionsapi.SessionState.
NilSession == [isNil |-> TRUE, loader |-> 0, rawIDToken |-> << >>]

\* A session that an earlier stage of the chain put in the scope.
PriorSession == [isNil |-> FALSE, loader |-> 0, rawIDToken |-> << >>]

\* A nil *RequestScope: the request carries no scope.
NilScope == [isNil |-> TRUE, Session |-> NilSession]

\* A *RequestScope whose Session field is s.
ScopeWith(s) == [isNil |-> FALSE, Session |-> s]

\* GetRequestScope(req): the scope attached to the request, nil when none is.
GetRequestScope(sc) == sc

\* -------------------------------------------------- TokenToSessionLoader

\* loader.Verifier.Verify(ctx, rawBearerToken): a verifier is the set of the
\* tokens whose signature, issuer, audience and expiry it validates.
Verify(loader, rawBearerToken) ==
    IF rawBearerToken \in loader.accepts THEN NilError
    ELSE Errorf(MsgUnableToVerify)

\* loader.TokenToSession(ctx, rawBearerToken, bearerToken) of the loader at
\* index i: the session built from the token, or nil and an error.
TokenToSession(loaders, i, rawBearerToken) ==
    IF loaders[i].converts
    THEN [session |-> [isNil |-> FALSE, loader |-> i,
                       rawIDToken |-> rawBearerToken],
          err |-> NilError]
    ELSE [session |-> NilSession, err |-> Errorf(MsgConversionFailed)]

\* ------------------------------------------------------ findBearerToken

\* tokenOfBasicPair with the password taken whenever the user name gives no
\* token, the user name's shape notwithstanding.
tokenOfBasicPairPasswordFallback(user, password) ==
    IF jwtRegexMatchString(user)
           /\ (password = EmptyString \/ password = MagicPassword)
    THEN user
    ELSE IF jwtRegexMatchString(password)
    THEN password
    ELSE EmptyString

\* tokenOfBasicPair with only the blank password supported.
tokenOfBasicPairBlankOnly(user, password) ==
    IF jwtRegexMatchString(user)
    THEN IF password = EmptyString
         THEN user
         ELSE EmptyString
    ELSE IF jwtRegexMatchString(password)
    THEN password
    ELSE EmptyString

\* Lines 107-116: the token of a decoded Basic pair, "" when there is none.
tokenOfBasicPair(user, password) ==
    IF jwtRegexMatchString(user)
    THEN IF password = EmptyString \/ password = MagicPassword
         THEN user
         ELSE EmptyString
    ELSE IF jwtRegexMatchString(password)
    THEN password
    ELSE EmptyString

\* Lines 118-122: the result for the candidate rawBearerToken.
tokenOrError(rawBearerToken) ==
    IF rawBearerToken = EmptyString
    THEN [token |-> EmptyString, err |-> Errorf(MsgNoValidBearer)]
    ELSE [token |-> rawBearerToken, err |-> NilError]

\* Lines 101-116: b is the decoded credential, pair its split at ":".
tokenOfDecoded(b, pair) ==
    IF Len(pair) # 2
    THEN [token |-> EmptyString, err |-> Errorf(MsgInvalidFormat \o b)]
    ELSE tokenOrError(tokenOfBasicPair(pair[1], pair[2]))

\* Lines 97-116: d is the result of base64.StdEncoding.DecodeString(s[1]).
tokenOfBasic(d) ==
    IF ~d.ok
    THEN [token |-> EmptyString, err |-> Errorf(MsgIllegalBase64)]
    ELSE tokenOfDecoded(d.bytes, SplitN2(d.bytes, ColonSep))

\* tokenOfParts with a header of one part taken as a bare token.
tokenOfPartsBareToken(auth, s) ==
    IF Len(s) # 2
    THEN tokenOrError(IF jwtRegexMatchString(auth) THEN auth ELSE EmptyString)
    ELSE IF s[1] = BearerScheme /\ jwtRegexMatchString(s[2])
    THEN tokenOrError(s[2])
    ELSE IF s[1] = BasicScheme
    THEN tokenOfBasic(StdEncodingDecodeString(s[2]))
    ELSE tokenOrError(EmptyString)

\* tokenOfParts with the Bearer credential taken without the shape test.
tokenOfPartsAnyBearer(auth, s) ==
    IF Len(s) # 2
    THEN [token |-> EmptyString, err |-> Errorf(MsgInvalidHeader \o auth)]
    ELSE IF s[1] = BearerScheme
    THEN tokenOrError(s[2])
    ELSE IF s[1] = BasicScheme
    THEN tokenOfBasic(StdEncodingDecodeString(s[2]))
    ELSE tokenOrError(EmptyString)

\* Lines 88-122: s is strings.SplitN(auth, " ", 2).
tokenOfParts(auth, s) ==
    IF Len(s) # 2
    THEN [token |-> EmptyString, err |-> Errorf(MsgInvalidHeader \o auth)]
    ELSE IF s[1] = BearerScheme /\ jwtRegexMatchString(s[2])
    THEN tokenOrError(s[2])
    ELSE IF s[1] = BasicScheme
    THEN tokenOfBasic(StdEncodingDecodeString(s[2]))
    ELSE tokenOrError(EmptyString)

\* findBearerToken(req), auth being req.Header.Get("Authorization").
findBearerToken(auth) ==
    IF auth = EmptyString
    THEN [token |-> EmptyString, err |-> NilError]
    ELSE tokenOfParts(auth, SplitN2(auth, SpaceSep))

\* -------------------------------------------------------- getJwtSession

\* Line 72: the return of the converter's result c for the loader at i.
converted(rawBearerToken, c, verified, i) ==
    [token |-> rawBearerToken, session |-> c.session, err |-> c.err,
     verified |-> Append(verified, i), converted |-> <<i>>, reads |-> 1]

\* scanLoaders with the scan ended by the first verifier that rejects.
scanLoadersStopAtRejection(loaders, i, rawBearerToken, auth, verified) ==
    IF i > Len(loaders)
    THEN [token |-> rawBearerToken, session |-> NilSession,
          err |-> Errorf(MsgUnableToVerify \o auth),
          verified |-> verified, converted |-> << >>, reads |-> 2]
    ELSE IF Verify(loaders[i], rawBearerToken).isNil
    THEN converted(rawBearerToken,
                   TokenToSession(loaders, i, rawBearerToken), verified, i)
    ELSE [token |-> rawBearerToken, session |-> NilSession,
          err |-> Errorf(MsgUnableToVerify \o auth),
          verified |-> Append(verified, i), converted |-> << >>,
          reads |-> 2]

\* scanLoaders with the last loader's converter used when no verifier
\* accepts the token.
RECURSIVE scanLoadersLastConverts(_, _, _, _, _)
scanLoadersLastConverts(loaders, i, rawBearerToken, auth, verified) ==
    IF i > Len(loaders)
    THEN IF Len(loaders) = 0
         THEN [token |-> rawBearerToken, session |-> NilSession,
               err |-> Errorf(MsgUnableToVerify \o auth),
               verified |-> verified, converted |-> << >>, reads |-> 2]
         ELSE converted(rawBearerToken,
                        TokenToSession(loaders, Len(loaders), rawBearerToken),
                        SubSeq(verified, 1, Len(verified) - 1), Len(loaders))
    ELSE IF Verify(loaders[i], rawBearerToken).isNil
    THEN converted(rawBearerToken,
                   TokenToSession(loaders, i, rawBearerToken), verified, i)
    ELSE scanLoadersLastConverts(loaders, i + 1, rawBearerToken, auth,
                                 Append(verified, i))

\* Lines 68-76: the scan of j.sessionLoaders from index i on. verified and
\* converted list the loaders whose Verify and TokenToSession were called;
\* reads counts the reads of the Authorization header.
RECURSIVE scanLoaders(_, _, _, _, _)
scanLoaders(loaders, i, rawBearerToken, auth, verified) ==
    IF i > Len(loaders)
    THEN [token |-> rawBearerToken, session |-> NilSession,
          err |-> Errorf(MsgUnableToVerify \o auth),
          verified |-> verified, converted |-> << >>, reads |-> 2]
    ELSE IF Verify(loaders[i], rawBearerToken).isNil
    THEN converted(rawBearerToken,
                   TokenToSession(loaders, i, rawBearerToken), verified, i)
    ELSE scanLoaders(loaders, i + 1, rawBearerToken, auth,
                     Append(verified, i))

\* sessionOfToken without the return for an empty token (lines 63-66).
sessionOfTokenNoEmptyReturn(f, auth, loaders) ==
    IF ~f.err.isNil
    THEN [token |-> f.token, session |-> NilSession, err |-> f.err,
          verified |-> << >>, converted |-> << >>, reads |-> 1]
    ELSE scanLoaders(loaders, 1, f.token, auth, << >>)

\* Lines 60-76: f is the result of j.findBearerToken(req).
sessionOfToken(f, auth, loaders) ==
    IF ~f.err.isNil
    THEN [token |-> f.token, session |-> NilSession, err |-> f.err,
          verified |-> << >>, converted |-> << >>, reads |-> 1]
    ELSE IF f.token = EmptyString
    THEN [token |-> f.token, session |-> NilSession, err |-> NilError,
          verified |-> << >>, converted |-> << >>, reads |-> 1]
    ELSE scanLoaders(loaders, 1, f.token, auth, << >>)

\* getJwtSession(req)
getJwtSession(auth, loaders) ==
    sessionOfToken(findBearerToken(auth), auth, loaders)

\* ---------------------------------------------------------- loadSession

\* A run of the handler that panics with value v before it does anything.
Panicked(v, sc) ==
    [outcome |-> "panic", panicValue |-> v, scope |-> sc,
     nextCalls |-> << >>, verified |-> << >>, converted |-> << >>,
     reads |-> 0, logs |-> << >>]

\* Lines 40-43: the calls of next.ServeHTTP made before getJwtSession runs;
\* the branch has no return.
passedOn(sc) == IF ~sc.Session.isNil THEN <<sc.Session>> ELSE << >>

\* Lines 46-48: what is logged for the error err.
logged(err) ==
    IF ~err.isNil THEN <<MsgErrorRetrieving \o err.msg>> ELSE << >>

\* Lines 40-52: sc is the scope, g the result of j.getJwtSession(req).
withSession(sc, g) ==
    [outcome |-> "returned", panicValue |-> "",
     scope |-> ScopeWith(g.session),
     nextCalls |-> Append(passedOn(sc), g.session),
     verified |-> g.verified, converted |-> g.converted,
     reads |-> g.reads, logs |-> logged(g.err)]

\* Lines 34-52: sc is the result of GetRequestScope(req).
withScope(sc, auth, loaders) ==
    IF ~sc.isNil
    THEN Panicked("RequestScope not found", sc)
    ELSE IF sc.isNil
    THEN \* line 40 reads scope.Session through a nil pointer
         Panicked("invalid memory address or nil pointer dereference", sc)
    ELSE withSession(sc, getJwtSession(auth, loaders))

\* The handler that loadSession(next) returns, run on a request whose
\* Authorization header is auth and whose scope is attached. nextCalls
\* lists, for each call of next.ServeHTTP, the session next finds in the
\* scope.
loadSessionHandler(auth, attached, loaders) ==
    withScope(GetRequestScope(attached), auth, loaders)

\* ---------------------------------------------------------------- inputs

\* "eyJ.eyJ.a" and "eyJh.eyJz.b-_": two strings of the JWT shape
TokenA == <<101, 121, 74, 46, 101, 121, 74, 46, 97>>

TokenB == <<101, 121, 74, 104, 46, 101, 121, 74, 122, 46, 98, 45, 95>>

\* The tokens a verifier may accept.
Tokens == {TokenA, TokenB}

\* "abc", "eyJ.eyJ." (empty third part), "eyJ.eyJ.a.b" (a third dot) and
\* "!!!!" (not base64): credentials that are not of the JWT shape
NotJwtCredentials ==
    { <<97, 98, 99>>,
      <<101, 121, 74, 46, 101, 121, 74, 46>>,
      <<101, 121, 74, 46, 101, 121, 74, 46, 97, 46, 98>>,
      <<33, 33, 33, 33>> }

\* The schemes of the requests: "Bearer", "Basic" and "Digest"
Schemes == {BearerScheme, BasicScheme, <<68, 105, 103, 101, 115, 116>>}

\* The user names of the Basic requests: the two tokens, "user" and ""
Users == Tokens \cup {<<117, 115, 101, 114>>, EmptyString}

\* The passwords of the Basic requests: "", "x-oauth-basic", "secret" and
\* the two tokens
Passwords ==
    Tokens \cup {EmptyString, MagicPassword, <<115, 101, 99, 114, 101, 116>>}

\* "Basic " followed by the base64 encoding of plain
BasicHeader(plain) ==
    BasicScheme \o SpaceSep \o StdEncodingEncodeToString(plain)

\* The values of the Authorization header: none, one without a space, a
\* scheme with a raw credential, a Basic pair, and a Basic value without ":".
Headers ==
    {EmptyString, BearerScheme, TokenA}
    \cup {sch \o SpaceSep \o c : sch \in Schemes,
                                 c \in Tokens \cup NotJwtCredentials}
    \cup {BasicHeader(u \o ColonSep \o p) : u \in Users, p \in Passwords}
    \cup {BasicHeader(u) : u \in {TokenA, <<117, 115, 101, 114>>}}

\* The scopes a request arrives with: none, an empty one, one with a session.
Scopes == {NilScope, ScopeWith(NilSession), ScopeWith(PriorSession)}

\* The configurations of j.sessionLoaders: at most MaxLoaders loaders, each a
\* verifier (the tokens it accepts) and a converter (whether it succeeds).
Loaders == [accepts : SUBSET Tokens, converts : BOOLEAN]

LoaderLists == UNION {[1..n -> Loaders] : n \in 0..MaxLoaders}

\* ----------------------------------------------------------------- state

VARIABLES
    auth,            \* req.Header.Get("Authorization") of the request
    scope,           \* the RequestScope of the request (NilScope: none)
    sessionLoaders,  \* j.sessionLoaders
    op,              \* the method that ran on the request, "none" before
    ret,             \* what findBearerToken or getJwtSession returned
    outcome,         \* of the handler: "none", "returned" or "panic"
    panicValue,      \* the value the handler panicked with
    nextCalls,       \* per call of next.ServeHTTP, the session in the scope
    verifyCalls,     \* the loaders whose Verifier.Verify was called
    convertCalls,    \* the loaders whose TokenToSession was called
    headerReads,     \* the reads of the Authorization header
    logs,            \* the messages given to logger.Printf
    written          \* the handler wrote to the http.ResponseWriter

vars ==
    <<auth, scope, sessionLoaders, op, ret, outcome, panicValue, nextCalls,
      verifyCalls, convertCalls, headerReads, logs, written>>

\* What a method that has not run has returned.
\* ------------------------------------------- state of the other components

\* The largest number of concurrent requests for one session identity.
NumRequests == 2

\* The TTL of the refresh lock, in clock ticks.
LockTTL == 3

\* The number of times a request that finds the lock held tries again.
RetryBudget == 1

\* The time limit of the provider's refresh call, below the lock's TTL.
CallTimeout == LockTTL - 1

Requests == 1..NumRequests

VARIABLES
    lockStore,    \* the session the distributed store holds for the identity
    lock,         \* the refresh lock of the identity
    providerGen,  \* the generation of the refresh token the provider honours
    rpc,          \* per request, where it is in the refresh protocol
    rsess,        \* per request, the session it works on or ends with
    rtries,       \* per request, the retries spent on a held lock
    rcall,        \* per request, the ticks its provider call has taken
    rheld         \* the requests that stopped while holding the lock

lockVars == <<lockStore, lock, providerGen, rpc, rsess, rtries, rcall, rheld>>

\* No lock: the lock key is absent from the store.
NoLock == [held |-> FALSE, holder |-> 0, ttl |-> 0]

\* No session: the key is absent from the store, or the request has none.
AbsentSession == [present |-> FALSE, tokens |-> 0, expiresOn |-> 0]

\* The session of generation g: its tokens and its expiry are those that the
\* g-th refresh gave; generation 0 is the session that has expired.
SessionOfGen(g) == [present |-> TRUE, tokens |-> g, expiresOn |-> g]

\* The refresh protocol is not running.
LockIdle ==
    /\ lockStore = AbsentSession
    /\ lock = NoLock
    /\ providerGen = 0
    /\ rpc = [r \in Requests |-> "idle"]
    /\ rsess = [r \in Requests |-> AbsentSession]
    /\ rtries = [r \in Requests |-> 0]
    /\ rcall = [r \in Requests |-> 0]
    /\ rheld = {}

\* The largest number of session keys in the external store.
NumKeys == 2

\* The largest number of different sessions saved.
NumSessions == 2

\* The TTL of a store entry, the session's maximum lifetime, in clock ticks.
SessionTTL == 2

\* The number of nodes the external store is made of.
NumShards == 2

Keys == 1..NumKeys

Sessions == 1..NumSessions

Nodes == 1..NumShards

Topologies == {"standalone", "sentinel", "cluster"}

VARIABLES
    redis,      \* per topology and node, the entries of the external store
    primary,    \* the node the discovery layer names as the current primary
    ssOp,       \* the last operation on the session stores
    ssRet,      \* per topology, what the last operation returned
    ssRef       \* per key, the session last saved and the time since

storeVars == <<redis, primary, ssOp, ssRet, ssRef>>

\* No entry: the key is absent from the node.
NoEntry == [present |-> FALSE, value |-> 0, ttl |-> 0]

\* No result: no operation has returned.
NoResult == [session |-> 0, err |-> FALSE]

\* No session was saved under the key, or it was cleared.
NeverSaved == [present |-> FALSE, value |-> 0, age |-> 0]

\* The session stores are not in use.
StoreIdle ==
    /\ redis = [t \in Topologies |-> [n \in Nodes |-> [k \in Keys |-> NoEntry]]]
    /\ primary = 1
    /\ ssOp = [name |-> "idle", key |-> 0]
    /\ ssRet = [t \in Topologies |-> NoResult]
    /\ ssRef = [k \in Keys |-> NeverSaved]

\* The capacity of the server's stop channel.
StopCap == 1

\* The largest number of connections the server has at a time.
MaxConns == 3

Conns == 1..MaxConns

VARIABLES
    stop,       \* the values buffered in the server's stop channel
    sigPc,      \* where the signal-watching goroutine is
    servePc,    \* where Server.ServeHTTP is
    waitPc,     \* where the goroutine that waits for the stop value is
    closed,     \* the HTTP server has been shut down and accepts no more
    conns,      \* per connection: none, active in a request, or idle
    received    \* the number of values received from the stop channel

serverVars == <<stop, sigPc, servePc, waitPc, closed, conns, received>>

\* No server has been made.
ServerIdle ==
    /\ stop = 0
    /\ sigPc = "idle"
    /\ servePc = "idle"
    /\ waitPc = "idle"
    /\ closed = FALSE
    /\ conns = [c \in Conns |-> "none"]
    /\ received = 0

VARIABLES
    bMethod,    \* the builder's method
    bEndpoint,  \* the path of the builder's endpoint on the test server
    bCtx,       \* the builder's context: none, live or cancelled
    bResult,    \* the builder's result, once the request has been done
    bMade,      \* the settings the request was done with
    bBodyRead,  \* the body of the response has been read
    sent,       \* the requests the test server has received
    bRet        \* what the last call on the builder returned

builderVars ==
    <<bMethod, bEndpoint, bCtx, bResult, bMade, bBodyRead, sent, bRet>>

\* The zero value of testHTTPRequest.
ZeroRequest == [Method |-> "", RequestURI |-> ""]

\* A nil *http.Response.
NilResponse ==
    [isNil |-> TRUE, status |-> 0, json |-> FALSE, request |-> ZeroRequest,
     text |-> ""]

\* A nil *simplejson.Json.
NilJSON == [isNil |-> TRUE, request |-> ZeroRequest]

\* The builder has no result: the request has not been done.
NoResultYet == [done |-> FALSE, response |-> NilResponse, err |-> ""]

\* No settings: the request has not been done.
NotMade == [method |-> "", endpoint |-> "", ctx |-> ""]

\* No call on the builder has returned.
NoCall ==
    [op |-> "none", response |-> NilResponse, err |-> "",
     into |-> ZeroRequest, json |-> NilJSON]

\* No builder has been made.
BuilderIdle ==
    /\ bMethod = ""
    /\ bEndpoint = ""
    /\ bCtx = "idle"
    /\ bResult = NoResultYet
    /\ bMade = NotMade
    /\ bBodyRead = FALSE
    /\ sent = << >>
    /\ bRet = NoCall

VARIABLES
    hcReq,      \* the request to the health-check wrapper
    hcPc,       \* ready to serve the request, or served
    hcCode,     \* the status code the recorder holds
    hcBody,     \* the body the recorder holds
    hcNext      \* the requests the wrapped handler was called with

healthVars == <<hcReq, hcPc, hcCode, hcBody, hcNext>>

\* No request: none has been made.
NoRequest == [method |-> "", path |-> "", userAgent |-> ""]

\* No health-check wrapper has been made.
HealthIdle ==
    /\ hcReq = NoRequest
    /\ hcPc = "idle"
    /\ hcCode = 0
    /\ hcBody = ""
    /\ hcNext = << >>

VARIABLES
    opts,       \* the options main was started with
    chain,      \* the handlers of the chain main built, outermost first
    mReq,       \* the request the server's handler is called with
    mPc,        \* main is starting, the chain serves, or the request is done
    mPos,       \* the place in the chain of the handler that runs next
    visited,    \* the handlers the request has reached, in order
    answeredBy  \* the handler that answered the request

mainVars == <<opts, chain, mReq, mPc, mPos, visited, answeredBy>>

\* No options: main has not run.
NoOptions ==
    [ForceHTTPS |-> FALSE, SilencePing |-> FALSE, GCPHealthChecks |-> FALSE]

\* No request to the chain.
NoChainRequest == [path |-> "", userAgent |-> "", secure |-> FALSE]

\* main is not running.
MainIdle ==
    /\ opts = NoOptions
    /\ chain = << >>
    /\ mReq = NoChainRequest
    /\ mPc = "idle"
    /\ mPos = 0
    /\ visited = << >>
    /\ answeredBy = ""

\* The largest number of emails in Bitbucket's answer.
MaxEmails == 2

\* The largest number of teams, and of repositories, in Bitbucket's answer.
MaxNames == 2

VARIABLES
    bbProvider, \* the BitbucketProvider: Team and Repository
    bbCtx,      \* the context GetEmailAddress is called with: set or nil
    bbAnswers,  \* what Bitbucket answers to each of the three requests
    bbPc,       \* GetEmailAddress is to be called, or has returned
    bbRet       \* what GetEmailAddress returned, the requests made and logs

bitbucketVars == <<bbProvider, bbCtx, bbAnswers, bbPc, bbRet>>

\* An answer that was not asked for.
NoAnswer == [err |-> "", values |-> << >>]

\* GetEmailAddress has not returned.
NoEmailReturn == [email |-> "", err |-> "", requests |-> << >>, logs |-> << >>]

\* No BitbucketProvider has been made.
BitbucketIdle ==
    /\ bbProvider = [Team |-> "", Repository |-> ""]
    /\ bbCtx = "idle"
    /\ bbAnswers = [emails |-> NoAnswer, teams |-> NoAnswer,
                    repositories |-> NoAnswer]
    /\ bbPc = "idle"
    /\ bbRet = NoEmailReturn

\* The client secret of a provider: the provider's two fields, the files by
\* name, the position of the caller and what GetClientSecret returned.
VARIABLES csProvider, csFiles, csPc, csRet

secretVars == <<csProvider, csFiles, csPc, csRet>>

NoSecretReturn == [secret |-> << >>, err |-> << >>, reads |-> << >>, logs |-> << >>]

SecretIdle ==
    /\ csProvider = [ClientSecret |-> << >>, ClientSecretFile |-> << >>]
    /\ csFiles = << >>
    /\ csPc = "idle"
    /\ csRet = NoSecretReturn

\* The largest number of calls of SetTeam and SetRepository on a provider.
MaxCalls == 3

\* The scope of a Bitbucket provider: its fields, the Scope it was made with
\* and the calls made on it since.
VARIABLES scProvider, scInitial, scCalls

scopeVars == <<scProvider, scInitial, scCalls>>

ScopeIdle ==
    /\ scProvider = [Scope |-> << >>, Team |-> "", Repository |-> ""]
    /\ scInitial = << >>
    /\ scCalls = << >>

\* The state of the components other than the bearer-token stage.
otherVars == <<lockVars, storeVars, serverVars, builderVars, healthVars, mainVars, bitbucketVars, secretVars, scopeVars>>

\* No component other than the bearer-token stage is running.
OthersIdle == LockIdle /\ StoreIdle /\ ServerIdle /\ BuilderIdle /\ HealthIdle /\ MainIdle /\ BitbucketIdle /\ SecretIdle /\ ScopeIdle

NoReturn == [token |-> EmptyString, session |-> NilSession, err |-> NilError]

Init ==
    /\ auth \in Headers
    /\ scope \in Scopes
    /\ sessionLoaders \in LoaderLists
    /\ op = "none"
    /\ ret = NoReturn
    /\ outcome = "none"
    /\ panicValue = ""
    /\ nextCalls = << >>
    /\ verifyCalls = << >>
    /\ convertCalls = << >>
    /\ headerReads = 0
    /\ logs = << >>
    /\ written = FALSE
    /\ OthersIdle

\* j.findBearerToken(req)
FindBearerToken ==
    /\ op = "none"
    /\ op' = "findBearerToken"
    /\ ret' = [session |-> NilSession] @@ findBearerToken(auth)
    /\ headerReads' = 1
    /\ UNCHANGED <<auth, scope, sessionLoaders, outcome, panicValue,
                   nextCalls, verifyCalls, convertCalls, logs, written>>
    /\ UNCHANGED otherVars

\* The state after j.getJwtSession(req) returned g.
Returned(g) ==
    /\ ret' = [token |-> g.token, session |-> g.session, err |-> g.err]
    /\ verifyCalls' = g.verified
    /\ convertCalls' = g.converted
    /\ headerReads' = g.reads

\* j.getJwtSession(req)
GetJwtSession ==
    /\ op = "none"
    /\ op' = "getJwtSession"
    /\ Returned(getJwtSession(auth, sessionLoaders))
    /\ UNCHANGED <<auth, scope, sessionLoaders, outcome, panicValue,
                   nextCalls, logs, written>>
    /\ UNCHANGED otherVars

\* The state after the run h of the handler.
Handled(h) ==
    /\ outcome' = h.outcome
    /\ panicValue' = h.panicValue
    /\ scope' = h.scope
    /\ nextCalls' = h.nextCalls
    /\ verifyCalls' = h.verified
    /\ convertCalls' = h.converted
    /\ headerReads' = h.reads
    /\ logs' = h.logs

\* j.loadSession(next).ServeHTTP(rw, req)
LoadSession ==
    /\ op = "none"
    /\ op' = "loadSession"
    /\ Handled(loadSessionHandler(auth, scope, sessionLoaders))
    /\ UNCHANGED <<auth, sessionLoaders, ret, written>>
    /\ UNCHANGED otherVars

Next ==
    \/ FindBearerToken
    \/ GetJwtSession
    \/ LoadSession

\* The bearer-token stage is not running.
BearerIdle ==
    /\ auth = EmptyString
    /\ scope = NilScope
    /\ sessionLoaders = << >>
    /\ op = "idle"
    /\ ret = NoReturn
    /\ outcome = "none"
    /\ panicValue = ""
    /\ nextCalls = << >>
    /\ verifyCalls = << >>
    /\ convertCalls = << >>
    /\ headerReads = 0
    /\ logs = << >>
    /\ written = FALSE

exceptLockVars == <<vars, storeVars, serverVars, builderVars, healthVars, mainVars, bitbucketVars, secretVars, scopeVars>>

ExceptLockIdle == BearerIdle /\ StoreIdle /\ ServerIdle /\ BuilderIdle /\ HealthIdle /\ MainIdle /\ BitbucketIdle /\ SecretIdle /\ ScopeIdle

exceptStoreVars == <<vars, lockVars, serverVars, builderVars, healthVars, mainVars, bitbucketVars, secretVars, scopeVars>>

ExceptStoreIdle == BearerIdle /\ LockIdle /\ ServerIdle /\ BuilderIdle /\ HealthIdle /\ MainIdle /\ BitbucketIdle /\ SecretIdle /\ ScopeIdle

exceptServerVars == <<vars, lockVars, storeVars, builderVars, healthVars, mainVars, bitbucketVars, secretVars, scopeVars>>

ExceptServerIdle == BearerIdle /\ LockIdle /\ StoreIdle /\ BuilderIdle /\ HealthIdle /\ MainIdle /\ BitbucketIdle /\ SecretIdle /\ ScopeIdle

exceptBuilderVars == <<vars, lockVars, storeVars, serverVars, healthVars, mainVars, bitbucketVars, secretVars, scopeVars>>

ExceptBuilderIdle == BearerIdle /\ LockIdle /\ StoreIdle /\ ServerIdle /\ HealthIdle /\ MainIdle /\ BitbucketIdle /\ SecretIdle /\ ScopeIdle

exceptHealthVars == <<vars, lockVars, storeVars, serverVars, builderVars, mainVars, bitbucketVars, secretVars, scopeVars>>

ExceptHealthIdle == BearerIdle /\ LockIdle /\ StoreIdle /\ ServerIdle /\ BuilderIdle /\ MainIdle /\ BitbucketIdle /\ SecretIdle /\ ScopeIdle

exceptMainVars == <<vars, lockVars, storeVars, serverVars, builderVars, healthVars, bitbucketVars, secretVars, scopeVars>>

ExceptMainIdle == BearerIdle /\ LockIdle /\ StoreIdle /\ ServerIdle /\ BuilderIdle /\ HealthIdle /\ BitbucketIdle /\ SecretIdle /\ ScopeIdle

exceptBitbucketVars == <<vars, lockVars, storeVars, serverVars, builderVars, healthVars, mainVars, secretVars, scopeVars>>

ExceptBitbucketIdle == BearerIdle /\ LockIdle /\ StoreIdle /\ ServerIdle /\ BuilderIdle /\ HealthIdle /\ MainIdle /\ SecretIdle /\ ScopeIdle

exceptSecretVars == <<vars, lockVars, storeVars, serverVars, builderVars, healthVars, mainVars, bitbucketVars, scopeVars>>

ExceptSecretIdle == BearerIdle /\ LockIdle /\ StoreIdle /\ ServerIdle /\ BuilderIdle /\ HealthIdle /\ MainIdle /\ BitbucketIdle /\ ScopeIdle

exceptScopeVars == <<vars, lockVars, storeVars, serverVars, builderVars, healthVars, mainVars, bitbucketVars, secretVars>>

ExceptScopeIdle == BearerIdle /\ LockIdle /\ StoreIdle /\ ServerIdle /\ BuilderIdle /\ HealthIdle /\ MainIdle /\ BitbucketIdle /\ SecretIdle

allVars == <<vars, otherVars>>

Spec == Init /\ [][Next]_allVars

\* ----------------------------------------------------------------- claims

\* The loaders of the configuration that accept the token t.
Accepting(t) ==
    {i \in 1..Len(sessionLoaders) : t \in sessionLoaders[i].accepts}

\* The least element of a non-empty set of numbers.
Least(S) == CHOOSE i \in S : \A j \in S : i <= j

\* The indices 1..n in order.
UpTo(n) == [i \in 1..n |-> i]

\* C1: the handler panics with "RequestScope not found" if and only if the
\* request carries no scope, and with no scope next is never called.
C1_PanicIffNoScope ==
    op = "loadSession" =>
        /\ (outcome = "panic" /\ panicValue = "RequestScope not found")
               <=> scope.isNil
        /\ scope.isNil => nextCalls = << >>

\* C2: getJwtSession calls the verifiers in the configured order up to and
\* including the first that accepts the token, calls only that loader's
\* converter and returns what it returns; when none accepts, every verifier
\* was called and no converter.
C2_FirstAcceptingLoaderWins ==
    (op = "getJwtSession" /\ ret.token # EmptyString) =>
        IF Accepting(ret.token) = {}
        THEN /\ verifyCalls = UpTo(Len(sessionLoaders))
             /\ convertCalls = << >>
             /\ ret.session.isNil
             /\ ~ret.err.isNil
        ELSE /\ verifyCalls = UpTo(Least(Accepting(ret.token)))
             /\ convertCalls = <<Least(Accepting(ret.token))>>
             /\ [session |-> ret.session, err |-> ret.err]
                    = TokenToSession(sessionLoaders,
                                     Least(Accepting(ret.token)), ret.token)

\* C2 witness: the first of two verifiers rejects the token, the second
\* accepts it, and the session is the second converter's.
C2_Witness ==
    /\ op = "getJwtSession"
    /\ Len(sessionLoaders) = 2
    /\ ret.token = TokenA
    /\ Accepting(TokenA) = {2}
    /\ verifyCalls = <<1, 2>>
    /\ ret.session = [isNil |-> FALSE, loader |-> 2, rawIDToken |-> TokenA]

\* C3: a handler run that starts with a session in the scope returns after
\* passing the request on, with the scope as it was, the Authorization
\* header not read and no verifier called.
C3_SessionPresentPassesOn ==
    [][(op = "none" /\ op' = "loadSession"
            /\ ~scope.isNil /\ ~scope.Session.isNil) =>
           /\ outcome' = "returned"
           /\ Len(nextCalls') >= 1
           /\ \A n \in 1..Len(nextCalls') : nextCalls'[n] = scope.Session
           /\ scope' = scope
           /\ headerReads' = 0
           /\ verifyCalls' = << >>]_vars

C5_FailedBearerFallsThrough ==
    [][(op = "none" /\ op' = "loadSession"
            /\ ~scope.isNil /\ scope.Session.isNil
            /\ ~getJwtSession(auth, sessionLoaders).err.isNil) =>
           /\ outcome' = "returned"
           /\ ~written'
           /\ scope'.Session.isNil
           /\ Len(nextCalls') >= 1]_vars

\* C6: a session that getJwtSession returns, or that the handler puts in the
\* scope, comes from a token that findBearerToken extracted and that some
\* configured verifier accepts.
C6_NoFabricatedSession ==
    /\ (op = "getJwtSession" /\ ~ret.session.isNil) =>
           /\ findBearerToken(auth).err.isNil
           /\ findBearerToken(auth).token # EmptyString
           /\ ret.session.rawIDToken = findBearerToken(auth).token
           /\ Accepting(findBearerToken(auth).token) # {}
    /\ (op = "getJwtSession"
            /\ (\/ ~findBearerToken(auth).err.isNil
                \/ Accepting(findBearerToken(auth).token) = {})) =>
           ret.session.isNil
    /\ (op = "loadSession" /\ ~scope.Session.isNil
            /\ scope.Session # PriorSession) =>
           /\ findBearerToken(auth).err.isNil
           /\ Accepting(findBearerToken(auth).token) # {}

\* C6 witness: getJwtSession returned a session for an accepted token.
C6_Witness ==
    /\ op = "getJwtSession"
    /\ ~ret.session.isNil
    /\ Accepting(ret.session.rawIDToken) # {}

\* The text sub occurs in the text s.
Contains(s, sub) ==
    \E i \in 1..(Len(s) - Len(sub) + 1) : SubSeq(s, i, i + Len(sub) - 1) = sub

\* A request whose token getJwtSession found and no verifier accepted.
Untrusted ==
    /\ op = "getJwtSession"
    /\ ret.token # EmptyString
    /\ Accepting(ret.token) = {}

\* C7: the error for a token that no verifier accepts contains neither the
\* token nor the Authorization header, and is the same for every request
\* whose token is rejected.
C7_ErrorHidesToken ==
    Untrusted =>
        /\ ~ret.err.isNil
        /\ ~Contains(ret.err.msg, ret.token)
        /\ ~Contains(ret.err.msg, auth)
        /\ \A t \in Tokens :
               Accepting(t) = {} =>
                   getJwtSession(BearerScheme \o SpaceSep \o t,
                                 sessionLoaders).err = ret.err

\* The request is Basic with the credential base64(u ":" p).
IsBasicPair(u, p) == auth = BasicHeader(u \o ColonSep \o p)

\* The user name rule yields a token for the pair (u, p).
UserRule(u, p) == u \in Tokens /\ (p = EmptyString \/ p = MagicPassword)

\* C8 as claimed: whenever the user name rule yields no token and the
\* password is of the JWT shape, findBearerToken returns the password.
C8_PasswordIsToken ==
    op = "findBearerToken" =>
        \A u \in Users, p \in Passwords :
            (IsBasicPair(u, p) /\ ~UserRule(u, p) /\ p \in Tokens) =>
                (ret.token = p /\ ret.err.isNil)

\* C8 as amended: with a user name that is not of the JWT shape and a
\* password of the JWT shape, findBearerToken returns the password; with a
\* user name of the JWT shape and a password that is neither empty nor
\* "x-oauth-basic", it returns no token and an error, also when the password
\* is of the JWT shape.
C8_PasswordIsTokenUnlessUserIsJwt ==
    op = "findBearerToken" =>
        \A u \in Users, p \in Passwords :
            IsBasicPair(u, p) =>
                /\ (u \notin Tokens /\ p \in Tokens) =>
                       (ret.token = p /\ ret.err.isNil)
                /\ (u \in Tokens /\ ~UserRule(u, p)) =>
                       (ret.token = EmptyString
                            /\ ret.err = Errorf(MsgNoValidBearer))

\* C8 witness: both cases, "user:<token>" and "<token>:<token>".
C8_Witness ==
    /\ op = "findBearerToken"
    /\ \/ IsBasicPair(<<117, 115, 101, 114>>, TokenB) /\ ret.token = TokenB
       \/ IsBasicPair(TokenA, TokenB) /\ ~ret.err.isNil

\* C9: for Basic base64(user ":" password) with a user of the JWT shape and
\* a password that is empty or "x-oauth-basic", findBearerToken returns the
\* user as the token, with no error.
C9_UserIsToken ==
    op = "findBearerToken" =>
        \A u \in Tokens, p \in {EmptyString, MagicPassword} :
            IsBasicPair(u, p) => (ret.token = u /\ ret.err.isNil)

\* C9 witness: "<token>:x-oauth-basic" gave the token.
C9_Witness ==
    /\ op = "findBearerToken"
    /\ IsBasicPair(TokenA, MagicPassword)
    /\ ret.token = TokenA

\* C10: without an Authorization header findBearerToken returns "" and no
\* error, getJwtSession returns no session and no error, and no verifier is
\* called.
C10_NoHeaderIsNoError ==
    auth = EmptyString =>
        /\ op = "findBearerToken" =>
               (ret.token = EmptyString /\ ret.err.isNil)
        /\ op = "getJwtSession" =>
               /\ ret.session.isNil
               /\ ret.err.isNil
               /\ verifyCalls = << >>
               /\ convertCalls = << >>

\* C10 witness: getJwtSession ran without a header, under a configuration
\* with a verifier that could have been called.
C10_Witness ==
    /\ op = "getJwtSession"
    /\ auth = EmptyString
    /\ Len(sessionLoaders) >= 1
    /\ ret.session.isNil
    /\ ret.err.isNil

\* The header has no " ": it is not of the form "scheme credential".
HasNoSpace(h) == \A i \in 1..Len(h) : h[i] # 32

\* C11: for a non-empty Authorization header without a space,
\* findBearerToken returns no token and an error, getJwtSession returns that
\* error and no session, and no verifier or converter is called.
C11_MalformedHeaderIsError ==
    (auth # EmptyString /\ HasNoSpace(auth)) =>
        /\ op = "findBearerToken" =>
               /\ ret.token = EmptyString
               /\ ret.err = Errorf(MsgInvalidHeader \o auth)
        /\ op = "getJwtSession" =>
               /\ ret.session.isNil
               /\ ret.err = Errorf(MsgInvalidHeader \o auth)
        /\ verifyCalls = << >>
        /\ convertCalls = << >>

\* C11 witness: getJwtSession ran on the header "eyJ.eyJ.a", a token with no
\* scheme, under a configuration whose verifier accepts that token.
C11_Witness ==
    /\ op = "getJwtSession"
    /\ auth = TokenA
    /\ Accepting(TokenA) # {}
    /\ ~ret.err.isNil

\* C12: a token that findBearerToken returns, and so every token given to a
\* verifier, is of the JWT shape; for a non-empty header the result is a
\* token of that shape or an error with no token, never "" with no error.
C12_TokenHasJwtShape ==
    /\ op \in {"findBearerToken", "getJwtSession"} =>
           /\ ret.token # EmptyString =>
                  /\ ret.token \in Tokens
                  /\ jwtRegexMatchString(ret.token)
           /\ (auth # EmptyString /\ ret.token = EmptyString) =>
                  ~ret.err.isNil
    /\ verifyCalls # << >> => ret.token \in Tokens

\* C12 witness: a Bearer credential that is not of the JWT shape ("abc")
\* gave the error "no valid bearer token found in authorization header".
C12_Witness ==
    /\ op = "findBearerToken"
    /\ auth = BearerScheme \o SpaceSep \o <<97, 98, 99>>
    /\ ret.token = EmptyString
    /\ ret.err = Errorf(MsgNoValidBearer)

\* C13: a handler run on a request with a scope and no session, whose token
\* some verifier accepts and the paired converter turns into a session,
\* returns with that session in the scope, and next, called once, finds
\* that session there.
C13_SessionStoredBeforeNext ==
    [][(op = "none" /\ op' = "loadSession"
            /\ ~scope.isNil /\ scope.Session.isNil
            /\ ~getJwtSession(auth, sessionLoaders).session.isNil) =>
           /\ outcome' = "returned"
           /\ scope'.Session = getJwtSession(auth, sessionLoaders).session
           /\ nextCalls' = <<getJwtSession(auth, sessionLoaders).session>>]_vars

\* ------------------------------------------------- refresh-lock protocol


\* The session is complete: its tokens and its expiry are of one refresh.
Complete(s) == s.present /\ s.tokens = s.expiresOn

\* The session has expired and is eligible for a refresh.
Expired(s) == s.present /\ s.expiresOn = 0

\* Provider.refresh(s): a fully formed replacement of s.
Refreshed(s) ==
    [present |-> TRUE, tokens |-> s.tokens + 1, expiresOn |-> s.expiresOn + 1]

\* The requests arrive while the store holds the expired session.
LockInit ==
    /\ lockStore = SessionOfGen(0)
    /\ lock = NoLock
    /\ providerGen = 0
    /\ rpc = [r \in Requests |-> "load"]
    /\ rsess = [r \in Requests |-> AbsentSession]
    /\ rtries = [r \in Requests |-> 0]
    /\ rcall = [r \in Requests |-> 0]
    /\ rheld = {}
    /\ ExceptLockIdle

\* load: no session is a rejection, a session that has not expired is final,
\* an expired one is to be refreshed.
Load(r) ==
    /\ rpc[r] = "load"
    /\ rsess' = [rsess EXCEPT ![r] = lockStore]
    /\ rpc' = [rpc EXCEPT ![r] =
                  IF ~lockStore.present THEN "rejected"
                  ELSE IF Expired(lockStore) THEN "acquire"
                  ELSE "authenticated"]
    /\ UNCHANGED <<lockStore, lock, providerGen, rtries, rcall, rheld>>
    /\ UNCHANGED exceptLockVars

\* Acquire with the lock taken whether or not it is held.
AcquireHeldLock(r) ==
    /\ rpc[r] = "acquire"
    /\ lock' = [held |-> TRUE, holder |-> r, ttl |-> LockTTL]
    /\ rpc' = [rpc EXCEPT ![r] = "call"]
    /\ rcall' = [rcall EXCEPT ![r] = 0]
    /\ UNCHANGED <<lockStore, providerGen, rsess, rtries, rheld>>
    /\ UNCHANGED exceptLockVars

\* Acquire: set the lock key only if absent, with the TTL and the holder's
\* token. When it is held: load again within the retry budget, and past the
\* budget fall through to the unauthenticated path.
Acquire(r) ==
    /\ rpc[r] = "acquire"
    /\ IF ~lock.held
       THEN /\ lock' = [held |-> TRUE, holder |-> r, ttl |-> LockTTL]
            /\ rpc' = [rpc EXCEPT ![r] = "call"]
            /\ rcall' = [rcall EXCEPT ![r] = 0]
            /\ UNCHANGED <<rsess, rtries>>
       ELSE IF rtries[r] < RetryBudget
       THEN /\ rtries' = [rtries EXCEPT ![r] = rtries[r] + 1]
            /\ rpc' = [rpc EXCEPT ![r] = "load"]
            /\ UNCHANGED <<lock, rsess, rcall>>
       ELSE /\ rpc' = [rpc EXCEPT ![r] = "rejected"]
            /\ rsess' = [rsess EXCEPT ![r] = AbsentSession]
            /\ UNCHANGED <<lock, rtries, rcall>>
    /\ UNCHANGED <<lockStore, providerGen, rheld>>
    /\ UNCHANGED exceptLockVars

\* The provider's refresh call of the lock's holder: it redeems the refresh
\* token, which the provider honours once, or it fails.
ProviderCall(r) ==
    /\ rpc[r] = "call"
    /\ \/ /\ rsess[r].tokens = providerGen
          /\ providerGen' = providerGen + 1
          /\ rsess' = [rsess EXCEPT ![r] = Refreshed(rsess[r])]
          /\ rpc' = [rpc EXCEPT ![r] = "save"]
       \/ /\ UNCHANGED <<providerGen, rsess>>
          /\ rpc' = [rpc EXCEPT ![r] = "failed"]
    /\ rcall' = [rcall EXCEPT ![r] = 0]
    /\ UNCHANGED <<lockStore, lock, rtries, rheld>>
    /\ UNCHANGED exceptLockVars

\* save: the refreshed session replaces the stored one as a whole.
Save(r) ==
    /\ rpc[r] = "save"
    /\ lockStore' = rsess[r]
    /\ rpc' = [rpc EXCEPT ![r] = "release"]
    /\ UNCHANGED <<lock, providerGen, rsess, rtries, rcall, rheld>>
    /\ UNCHANGED exceptLockVars

\* Release after a refresh and save: delete the lock only if its holder
\* token is still this request's.
Release(r) ==
    /\ rpc[r] = "release"
    /\ lock' = IF lock.held /\ lock.holder = r THEN NoLock ELSE lock
    /\ rpc' = [rpc EXCEPT ![r] = "authenticated"]
    /\ UNCHANGED <<lockStore, providerGen, rsess, rtries, rcall, rheld>>
    /\ UNCHANGED exceptLockVars

\* A failed refresh: the lock is released all the same, the session is
\* cleared and the request goes on with no session.
FailRefresh(r) ==
    /\ rpc[r] = "failed"
    /\ lock' = IF lock.held /\ lock.holder = r THEN NoLock ELSE lock
    /\ lockStore' = AbsentSession
    /\ rsess' = [rsess EXCEPT ![r] = AbsentSession]
    /\ rpc' = [rpc EXCEPT ![r] = "rejected"]
    /\ UNCHANGED <<providerGen, rtries, rcall, rheld>>
    /\ UNCHANGED exceptLockVars

\* The holder stops without releasing the lock.
Crash(r) ==
    /\ rpc[r] \in {"call", "save", "release"}
    /\ rpc' = [rpc EXCEPT ![r] = "crashed"]
    /\ rheld' = IF lock.held /\ lock.holder = r THEN rheld \cup {r} ELSE rheld
    /\ rcall' = [rcall EXCEPT ![r] = 0]
    /\ UNCHANGED <<lockStore, lock, providerGen, rsess, rtries>>
    /\ UNCHANGED exceptLockVars

\* Tick with a lock that never runs out.
TickNoExpiry ==
    /\ lock.held \/ \E r \in Requests : rpc[r] = "call"
    /\ \A r \in Requests : rpc[r] = "call" => rcall[r] < CallTimeout
    /\ lock' = IF lock.held /\ lock.ttl > 1
               THEN [lock EXCEPT !.ttl = lock.ttl - 1]
               ELSE lock
    /\ rcall' = [r \in Requests |->
                    IF rpc[r] = "call" THEN rcall[r] + 1 ELSE rcall[r]]
    /\ (lock' # lock \/ rcall' # rcall)
    /\ UNCHANGED <<lockStore, providerGen, rpc, rsess, rtries, rheld>>
    /\ UNCHANGED exceptLockVars

\* A clock tick: the lock's TTL runs down and at 0 the store drops the key.
\* A provider call is time-bounded: it ends within CallTimeout ticks.
Tick ==
    /\ lock.held \/ \E r \in Requests : rpc[r] = "call"
    /\ \A r \in Requests : rpc[r] = "call" => rcall[r] < CallTimeout
    /\ lock' = IF ~lock.held THEN lock
               ELSE IF lock.ttl > 1 THEN [lock EXCEPT !.ttl = lock.ttl - 1]
               ELSE NoLock
    /\ rcall' = [r \in Requests |->
                    IF rpc[r] = "call" THEN rcall[r] + 1 ELSE rcall[r]]
    /\ UNCHANGED <<lockStore, providerGen, rpc, rsess, rtries, rheld>>
    /\ UNCHANGED exceptLockVars

\* A step of the request r that is not a stop.
RequestStep(r) ==
    \/ Load(r)
    \/ Acquire(r)
    \/ ProviderCall(r)
    \/ Save(r)
    \/ Release(r)
    \/ FailRefresh(r)

LockNext ==
    \/ \E r \in Requests : RequestStep(r)
    \/ \E r \in Requests : Crash(r)
    \/ Tick

LockSpec == LockInit /\ [][LockNext]_allVars

\* The requests run and the clock ticks; a request may still stop for good.
FairLockSpec ==
    /\ LockSpec
    /\ WF_allVars(Tick)
    /\ \A r \in Requests : WF_allVars(RequestStep(r))

\* The requests that are in the provider's refresh call.
Calling == {r \in Requests : rpc[r] = "call"}

\* The request has ended: with a session, with none, or by stopping.
Ended(r) == rpc[r] \in {"authenticated", "rejected", "crashed"}

StoppedHolderHasLock ==
    lock.held /\ lock.holder \in rheld /\ rpc[lock.holder] = "crashed"

\* C15: the lock of a holder that stopped without releasing it runs out, and
\* a request that then tries the free lock acquires it and goes on to the
\* provider's call; a request that finds the lock held with its retry budget
\* spent falls through with no session, and every request ends.
C15_LockIsLive ==
    /\ StoppedHolderHasLock ~> ~StoppedHolderHasLock
    /\ <>(\A r \in Requests : Ended(r))
    /\ [][\A r \in Requests :
              (rpc[r] = "acquire" /\ rpc'[r] # "acquire") =>
                  IF ~lock.held
                  THEN rpc'[r] = "call" /\ lock'.held /\ lock'.holder = r
                  ELSE IF rtries[r] = RetryBudget
                  THEN rpc'[r] = "rejected" /\ rsess'[r] = AbsentSession
                  ELSE rpc'[r] = "load" /\ rtries'[r] = rtries[r] + 1]_allVars

\* C15: a holder stopped without releasing, its lock ran out, and a request
\* that had found the lock held and spent a retry acquired it and is in the
\* provider's call.
C15_Witness ==
    \E r \in rheld : \E q \in Requests \ {r} :
        /\ rpc[r] = "crashed"
        /\ lock.held /\ lock.holder = q /\ rpc[q] = "call"
        /\ rtries[q] = RetryBudget

\* ------------------------------------------------ distributed session store

\* The node an operation on the key k goes to: the single endpoint, the
\* primary the discovery layer names, or the shard of the key's hash.
NodeOf(t, k) ==
    IF t = "standalone" THEN 1
    ELSE IF t = "sentinel" THEN primary
    ELSE ((k - 1) % NumShards) + 1

\* The entry that save writes: the session with a fresh TTL.
Saved(v) == [present |-> TRUE, value |-> v, ttl |-> SessionTTL]

\* The store with the entry e under the key k of the node n.
Put(store, n, k, e) == [store EXCEPT ![n][k] = e]

\* What load returns for the entry e: the session, or an error for no entry.
Loaded(e) ==
    IF e.present THEN [session |-> e.value, err |-> FALSE]
    ELSE [session |-> 0, err |-> TRUE]

\* FastForwardEntry with the entry kept when its TTL has run out.
FastForwardEntryKeepsLast(e, d) ==
    IF e.present /\ e.ttl > d THEN [e EXCEPT !.ttl = e.ttl - d] ELSE e

\* The entry e after the time d: the node drops it when its TTL has run out.
FastForwardEntry(e, d) ==
    IF e.present /\ e.ttl > d THEN [e EXCEPT !.ttl = e.ttl - d] ELSE NoEntry

\* The record of the key's session after the time d.
Aged(f, d) ==
    IF ~f.present THEN f
    ELSE [f EXCEPT !.age = IF f.age + d < SessionTTL THEN f.age + d
                           ELSE SessionTTL]

\* One store per topology, all empty, over the same clock.
StoreInit ==
    /\ redis = [t \in Topologies |-> [n \in Nodes |-> [k \in Keys |-> NoEntry]]]
    /\ primary \in Nodes
    /\ ssOp = [name |-> "none", key |-> 0]
    /\ ssRet = [t \in Topologies |-> NoResult]
    /\ ssRef = [k \in Keys |-> NeverSaved]
    /\ ExceptStoreIdle

\* save(session) in each topology.
SsSave ==
    /\ \E k \in Keys : \E v \in Sessions :
           /\ redis' = [t \in Topologies |->
                           Put(redis[t], NodeOf(t, k), k, Saved(v))]
           /\ ssOp' = [name |-> "save", key |-> k]
           /\ ssRef' = [ssRef EXCEPT
                           ![k] = [present |-> TRUE, value |-> v, age |-> 0]]
    /\ ssRet' = [t \in Topologies |-> NoResult]
    /\ UNCHANGED primary
    /\ UNCHANGED exceptStoreVars

\* load() in each topology.
SsLoad ==
    /\ \E k \in Keys :
           /\ ssRet' = [t \in Topologies |-> Loaded(redis[t][NodeOf(t, k)][k])]
           /\ ssOp' = [name |-> "load", key |-> k]
    /\ UNCHANGED <<redis, primary, ssRef>>
    /\ UNCHANGED exceptStoreVars

\* clear() in each topology.
SsClear ==
    /\ \E k \in Keys :
           /\ redis' = [t \in Topologies |->
                           Put(redis[t], NodeOf(t, k), k, NoEntry)]
           /\ ssOp' = [name |-> "clear", key |-> k]
           /\ ssRef' = [ssRef EXCEPT ![k] = NeverSaved]
    /\ ssRet' = [t \in Topologies |-> NoResult]
    /\ UNCHANGED primary
    /\ UNCHANGED exceptStoreVars

\* The clock of the external store is advanced by d.
SsAdvance ==
    /\ \E d \in 1..SessionTTL :
           /\ redis' = [t \in Topologies |-> [n \in Nodes |-> [k \in Keys |->
                           FastForwardEntry(redis[t][n][k], d)]]]
           /\ ssRef' = [k \in Keys |-> Aged(ssRef[k], d)]
    /\ ssOp' = [name |-> "advance", key |-> 0]
    /\ ssRet' = [t \in Topologies |-> NoResult]
    /\ UNCHANGED primary
    /\ UNCHANGED exceptStoreVars

StoreNext ==
    \/ SsSave
    \/ SsLoad
    \/ SsClear
    \/ SsAdvance

StoreSpec == StoreInit /\ [][StoreNext]_allVars

\* What the contract says load returns for the record f of a key: the session
\* last saved, unless it was cleared or its TTL has run out since the save.
Contract(f) ==
    IF f.present /\ f.age < SessionTTL
    THEN [session |-> f.value, err |-> FALSE]
    ELSE [session |-> 0, err |-> TRUE]

ServerInit ==
    /\ stop = 0
    /\ sigPc = "watching"
    /\ servePc = "ready"
    /\ waitPc = "ready"
    /\ closed = FALSE
    /\ conns = [c \in Conns |-> "none"]
    /\ received = 0
    /\ ExceptServerIdle

\* <-sigint: a SIGINT or SIGTERM is caught.
CatchSignal ==
    /\ sigPc = "watching"
    /\ sigPc' = "caught"
    /\ UNCHANGED <<stop, servePc, waitPc, closed, conns, received>>
    /\ UNCHANGED exceptServerVars

\* s.stop <- struct{}{}: blocks while the channel is full.
SendStop ==
    /\ sigPc = "caught"
    /\ stop < StopCap
    /\ stop' = stop + 1
    /\ sigPc' = "sent"
    /\ UNCHANGED <<servePc, waitPc, closed, conns, received>>
    /\ UNCHANGED exceptServerVars

\* srv.ServeHTTP() is called: it starts the goroutine that waits for the
\* stop value and serves.
StartServe ==
    /\ servePc = "ready"
    /\ servePc' = "serving"
    /\ waitPc' = "receiving"
    /\ UNCHANGED <<stop, sigPc, closed, conns, received>>
    /\ UNCHANGED exceptServerVars

\* The server accepts a connection and reads its first request.
AcceptRequest(c) ==
    /\ servePc = "serving"
    /\ ~closed
    /\ conns[c] = "none"
    /\ conns' = [conns EXCEPT ![c] = "active"]
    /\ UNCHANGED <<stop, sigPc, servePc, waitPc, closed, received>>
    /\ UNCHANGED exceptServerVars

\* The handler of the connection's request returns.
FinishRequest(c) ==
    /\ conns[c] = "active"
    /\ conns' = [conns EXCEPT ![c] = "idle"]
    /\ UNCHANGED <<stop, sigPc, servePc, waitPc, closed, received>>
    /\ UNCHANGED exceptServerVars

\* The next request of a connection that was kept alive.
NextRequest(c) ==
    /\ ~closed
    /\ conns[c] = "idle"
    /\ conns' = [conns EXCEPT ![c] = "active"]
    /\ UNCHANGED <<stop, sigPc, servePc, waitPc, closed, received>>
    /\ UNCHANGED exceptServerVars

\* An idle connection is closed: by the client, or by srv.Shutdown.
CloseIdle(c) ==
    /\ conns[c] = "idle"
    /\ conns' = [conns EXCEPT ![c] = "none"]
    /\ UNCHANGED <<stop, sigPc, servePc, waitPc, closed, received>>
    /\ UNCHANGED exceptServerVars

\* ReceiveStop with the value left in the channel.
ReceiveStopKeepsValue ==
    /\ waitPc = "receiving"
    /\ stop > 0
    /\ received' = received + 1
    /\ waitPc' = "shuttingDown"
    /\ UNCHANGED <<stop, sigPc, servePc, closed, conns>>
    /\ UNCHANGED exceptServerVars

\* <-s.stop: the waiting goroutine takes the stop value.
ReceiveStop ==
    /\ waitPc = "receiving"
    /\ stop > 0
    /\ stop' = stop - 1
    /\ received' = received + 1
    /\ waitPc' = "shuttingDown"
    /\ UNCHANGED <<sigPc, servePc, closed, conns>>
    /\ UNCHANGED exceptServerVars

\* srv.Shutdown begins: the listener is closed.
BeginShutdown ==
    /\ waitPc = "shuttingDown"
    /\ closed' = TRUE
    /\ waitPc' = "draining"
    /\ UNCHANGED <<stop, sigPc, servePc, conns, received>>
    /\ UNCHANGED exceptServerVars

\* srv.Shutdown returns once every connection is closed, and the waiting
\* goroutine tells ServeHTTP so.
EndShutdown ==
    /\ waitPc = "draining"
    /\ \A c \in Conns : conns[c] = "none"
    /\ waitPc' = "done"
    /\ UNCHANGED <<stop, sigPc, servePc, closed, conns, received>>
    /\ UNCHANGED exceptServerVars

\* srv.Serve returns because the server was shut down.
ServeEnds ==
    /\ servePc = "serving"
    /\ closed
    /\ servePc' = "waiting"
    /\ UNCHANGED <<stop, sigPc, waitPc, closed, conns, received>>
    /\ UNCHANGED exceptServerVars

\* ServeHTTP returns once the shutdown is over.
ServeReturns ==
    /\ servePc = "waiting"
    /\ waitPc = "done"
    /\ servePc' = "returned"
    /\ UNCHANGED <<stop, sigPc, waitPc, closed, conns, received>>
    /\ UNCHANGED exceptServerVars

\* A step of ServeHTTP.
ServeStep ==
    \/ StartServe
    \/ ServeEnds
    \/ ServeReturns

\* A step of the goroutine that waits for the stop value.
WaitStep ==
    \/ ReceiveStop
    \/ BeginShutdown
    \/ EndShutdown

\* srv.Shutdown closes the idle connection.
ShutdownClosesIdle(c) == closed /\ CloseIdle(c)

ServerNext ==
    \/ CatchSignal
    \/ SendStop
    \/ ServeStep
    \/ WaitStep
    \/ \E c \in Conns : AcceptRequest(c)
    \/ \E c \in Conns : FinishRequest(c)
    \/ \E c \in Conns : NextRequest(c)
    \/ \E c \in Conns : CloseIdle(c)

ServerSpec == ServerInit /\ [][ServerNext]_allVars

\* The goroutines are scheduled, handlers return and the shutdown closes
\* idle connections; whether a signal comes and whether requests come is
\* left open.
FairServerSpec ==
    /\ ServerSpec
    /\ WF_allVars(SendStop)
    /\ WF_allVars(ServeStep)
    /\ WF_allVars(WaitStep)
    /\ \A c \in Conns : WF_allVars(FinishRequest(c))
    /\ \A c \in Conns : WF_allVars(ShutdownClosesIdle(c))

StatusOK == 200

StatusNotFound == 404

InvalidMethod == "INVALID-\t-METHOD"

Methods == {"GET", "POST", "OPTIONS", InvalidMethod}

Endpoints == {"/json/path", "/not-found", "/string/path"}

MsgContextCanceled == "context canceled"

MsgInvalidMethod == "error creating request: net/http: invalid method"

MsgNotFound == "404 page not found"

MsgInvalidCharacter == "invalid character 'O' looking for beginning of value"

\* The test server's response: /json/path echoes the request as JSON,
\* /string/path says OK in plain text, any other path is not found.
Serve(method, uri) ==
    IF uri = "/json/path"
    THEN [isNil |-> FALSE, status |-> StatusOK, json |-> TRUE,
          request |-> [Method |-> method, RequestURI |-> uri], text |-> ""]
    ELSE IF uri = "/string/path"
    THEN [isNil |-> FALSE, status |-> StatusOK, json |-> FALSE,
          request |-> ZeroRequest, text |-> "OK"]
    ELSE [isNil |-> FALSE, status |-> StatusNotFound, json |-> FALSE,
          request |-> ZeroRequest, text |-> MsgNotFound]

\* Perform with a cancelled context not looked at.
PerformIgnoresContext(method, endpoint, ctx) ==
    IF method = InvalidMethod
    THEN [response |-> NilResponse, err |-> MsgInvalidMethod, sends |-> FALSE]
    ELSE [response |-> Serve(method, endpoint), err |-> "", sends |-> TRUE]

\* The request is created and sent: an invalid method fails the creation, a
\* cancelled context fails the sending, and else the server responds.
Perform(method, endpoint, ctx) ==
    IF method = InvalidMethod
    THEN [response |-> NilResponse, err |-> MsgInvalidMethod, sends |-> FALSE]
    ELSE IF ctx = "cancelled"
    THEN [response |-> NilResponse, err |-> MsgContextCanceled,
          sends |-> FALSE]
    ELSE [response |-> Serve(method, endpoint), err |-> "", sends |-> TRUE]

\* DoOutcome with the request done again whatever the result.
DoOutcomeNoResultKept == Perform(bMethod, bEndpoint, bCtx)

\* What r.Do() gives: the result of the request if it has been done, and else
\* the request is done now.
DoOutcome ==
    IF bResult.done
    THEN [response |-> bResult.response, err |-> bResult.err, sends |-> FALSE]
    ELSE Perform(bMethod, bEndpoint, bCtx)

\* The builder after r.Do() gave p: the result is kept.
Remember(p) ==
    /\ bResult' = [done |-> TRUE, response |-> p.response, err |-> p.err]
    /\ bMade' = IF bResult.done THEN bMade
                ELSE [method |-> bMethod, endpoint |-> bEndpoint, ctx |-> bCtx]
    /\ sent' = IF p.sends
               THEN Append(sent, [Method |-> bMethod, RequestURI |-> bEndpoint])
               ELSE sent

\* The body of the response decoded as JSON: a status other than 200 and a
\* body that is not JSON are errors, and the target is not written.
Decoded(resp) ==
    IF resp.status # StatusOK THEN [into |-> ZeroRequest, err |-> resp.text]
    ELSE IF ~resp.json THEN [into |-> ZeroRequest, err |-> MsgInvalidCharacter]
    ELSE [into |-> resp.request, err |-> ""]

\* What Into leaves in its target and returns, r.Do() having given p.
IntoOf(p) ==
    IF p.err # "" THEN [into |-> ZeroRequest, err |-> p.err]
    ELSE Decoded(p.response)

\* b = New(serverAddr + path)
BuilderInit ==
    /\ bMethod = "GET"
    /\ bEndpoint \in Endpoints
    /\ bCtx = "none"
    /\ bResult = NoResultYet
    /\ bMade = NotMade
    /\ bBodyRead = FALSE
    /\ sent = << >>
    /\ bRet = NoCall
    /\ ExceptBuilderIdle

\* b.WithMethod(method)
WithMethod ==
    /\ \E m \in Methods : bMethod' = m
    /\ UNCHANGED <<bEndpoint, bCtx, bResult, bMade, bBodyRead, sent, bRet>>
    /\ UNCHANGED exceptBuilderVars

\* b.WithContext(ctx)
WithContext ==
    /\ bCtx = "none"
    /\ bCtx' = "live"
    /\ UNCHANGED <<bMethod, bEndpoint, bResult, bMade, bBodyRead, sent, bRet>>
    /\ UNCHANGED exceptBuilderVars

\* cancel()
CancelContext ==
    /\ bCtx = "live"
    /\ bCtx' = "cancelled"
    /\ UNCHANGED <<bMethod, bEndpoint, bResult, bMade, bBodyRead, sent, bRet>>
    /\ UNCHANGED exceptBuilderVars

\* resp, err := b.Do()
Do ==
    /\ Remember(DoOutcome)
    /\ bRet' = [op |-> "Do", response |-> DoOutcome.response,
                err |-> DoOutcome.err, into |-> ZeroRequest, json |-> NilJSON]
    /\ UNCHANGED <<bMethod, bEndpoint, bCtx, bBodyRead>>
    /\ UNCHANGED exceptBuilderVars

\* err := b.Into(&actualRequest), the response's body not having been read.
Into ==
    /\ ~bBodyRead
    /\ Remember(DoOutcome)
    /\ bRet' = [op |-> "Into", response |-> NilResponse,
                err |-> IntoOf(DoOutcome).err, into |-> IntoOf(DoOutcome).into,
                json |-> NilJSON]
    /\ bBodyRead' = ~DoOutcome.response.isNil
    /\ UNCHANGED <<bMethod, bEndpoint, bCtx>>
    /\ UNCHANGED exceptBuilderVars

\* resp, err := b.JSON(), the response's body not having been read.
JSON ==
    /\ ~bBodyRead
    /\ Remember(DoOutcome)
    /\ bRet' = [op |-> "JSON", response |-> NilResponse,
                err |-> IntoOf(DoOutcome).err, into |-> ZeroRequest,
                json |-> IF IntoOf(DoOutcome).err # "" THEN NilJSON
                         ELSE [isNil |-> FALSE,
                               request |-> IntoOf(DoOutcome).into]]
    /\ bBodyRead' = ~DoOutcome.response.isNil
    /\ UNCHANGED <<bMethod, bEndpoint, bCtx>>
    /\ UNCHANGED exceptBuilderVars

BuilderNext ==
    \/ WithMethod
    \/ WithContext
    \/ CancelContext
    \/ Do
    \/ Into
    \/ JSON

BuilderSpec == BuilderInit /\ [][BuilderNext]_allVars

\* The request the server received when the builder's request was done.
FirstRequest == [Method |-> bMade.method, RequestURI |-> bMade.endpoint]

googleHealthCheckUserAgent == "GoogleHC/1.0"

RequestMethods == {"GET", "PUT", "POST", "HEAD"}

RequestPaths ==
    {"/", "/liveness_check", "/readiness_check", "/not_any_check", "/foo"}

UserAgents == {"", googleHealthCheckUserAgent, "Go-http-client/1.1"}

\* The wrapped handler of the tests: w.Write([]byte("test")).
Wrapped(r) == [code |-> StatusOK, body |-> "test", next |-> <<r>>]

\* gcpHealthcheck with the method of the request not looked at.
gcpHealthcheckAnyMethod(r) ==
    IF r.path \in {"/liveness_check", "/readiness_check"}
    THEN [code |-> StatusOK, body |-> "OK", next |-> << >>]
    ELSE IF r.path = "/" /\ r.userAgent = googleHealthCheckUserAgent
    THEN [code |-> StatusOK, body |-> "", next |-> << >>]
    ELSE Wrapped(r)

\* gcpHealthcheck(h).ServeHTTP(rw, r): the liveness and readiness paths are
\* answered OK, GET / of the Google health checker is answered with an empty
\* body, and any other request goes to the wrapped handler.
gcpHealthcheck(r) ==
    IF r.path \in {"/liveness_check", "/readiness_check"}
    THEN [code |-> StatusOK, body |-> "OK", next |-> << >>]
    ELSE IF /\ r.path = "/"
            /\ r.userAgent = googleHealthCheckUserAgent
            /\ r.method = "GET"
    THEN [code |-> StatusOK, body |-> "", next |-> << >>]
    ELSE Wrapped(r)

\* h := gcpHealthcheck(handler); rw := httptest.NewRecorder();
\* r := http.NewRequest(method, path, nil) with a User-Agent header.
HealthInit ==
    /\ hcReq \in [method : RequestMethods, path : RequestPaths,
                  userAgent : UserAgents]
    /\ hcPc = "ready"
    /\ hcCode = StatusOK
    /\ hcBody = ""
    /\ hcNext = << >>
    /\ ExceptHealthIdle

\* The state after the wrapper answered with a.
Answered(a) ==
    /\ hcCode' = a.code
    /\ hcBody' = a.body
    /\ hcNext' = a.next

\* h.ServeHTTP(rw, r)
ServeHealth ==
    /\ hcPc = "ready"
    /\ hcPc' = "served"
    /\ Answered(gcpHealthcheck(hcReq))
    /\ UNCHANGED hcReq
    /\ UNCHANGED exceptHealthVars

HealthNext == ServeHealth

HealthSpec == HealthInit /\ [][HealthNext]_allVars

\* The request is for the liveness or the readiness path.
IsCheckPath == hcReq.path \in {"/liveness_check", "/readiness_check"}

\* The request is GET / of the Google health checker.
IsIngressProbe ==
    /\ hcReq.path = "/"
    /\ hcReq.method = "GET"
    /\ hcReq.userAgent = googleHealthCheckUserAgent

PingPath == "/ping"

\* healthCheckPaths of main.
healthCheckPaths(o) ==
    IF o.GCPHealthChecks
    THEN <<PingPath, "/liveness_check", "/readiness_check">>
    ELSE <<PingPath>>

\* healthCheckUserAgents of main, opts.PingUserAgent being empty.
healthCheckUserAgents(o) ==
    IF o.GCPHealthChecks THEN <<"", "GoogleHC/1.0">> ELSE <<"">>

\* The elements of the sequence q.
Elements(q) == {q[i] : i \in 1..Len(q)}

\* The chain so far with the handlers hs appended: chain.Append(hs...).
AppendHandlers(c, hs) == c \o hs

\* The chain after the ForceHTTPS step of main.
withRedirect(o) ==
    IF o.ForceHTTPS THEN AppendHandlers(<< >>, <<"redirectToHTTPS">>)
    ELSE << >>

\* BuiltChain with the logging handler before the health check whatever
\* opts.Logging.SilencePing says.
BuiltChainLoggingFirst(o) ==
    AppendHandlers(AppendHandlers(withRedirect(o),
                                  <<"LoggingHandler", "healthCheck">>),
                   <<"oauthproxy">>)

\* chain.Then(oauthproxy) of main: the redirect if ForceHTTPS, then the
\* health check and the logging handler in the order SilencePing asks for,
\* and the proxy innermost.
BuiltChain(o) ==
    AppendHandlers(
        IF o.SilencePing
        THEN AppendHandlers(withRedirect(o),
                            <<"healthCheck", "LoggingHandler">>)
        ELSE AppendHandlers(withRedirect(o),
                            <<"LoggingHandler", "healthCheck">>),
        <<"oauthproxy">>)

\* The request is a health check: its path is a health-check path or its
\* User-Agent is a health-check agent, the empty ones not counting.
isHealthCheckRequest(o, r) ==
    \/ r.path \in Elements(healthCheckPaths(o))
    \/ r.userAgent # "" /\ r.userAgent \in Elements(healthCheckUserAgents(o))

\* The handler h answers the request itself and does not call the next one.
Answers(h, o, r) ==
    IF h = "redirectToHTTPS" THEN ~r.secure
    ELSE IF h = "healthCheck" THEN isHealthCheckRequest(o, r)
    ELSE IF h = "LoggingHandler" THEN FALSE
    ELSE TRUE

\* main is started with some options, and a request will come.
MainInit ==
    /\ opts \in [ForceHTTPS : BOOLEAN, SilencePing : BOOLEAN,
                 GCPHealthChecks : BOOLEAN]
    /\ chain = << >>
    /\ mReq \in [path : {PingPath, "/liveness_check", "/foo"},
                 userAgent : {"", "GoogleHC/1.0", "Go-http-client/1.1"},
                 secure : BOOLEAN]
    /\ mPc = "start"
    /\ mPos = 0
    /\ visited = << >>
    /\ answeredBy = ""
    /\ ExceptMainIdle

\* main builds the chain and the server takes the request.
BuildChain ==
    /\ mPc = "start"
    /\ chain' = BuiltChain(opts)
    /\ mPc' = "serving"
    /\ mPos' = 1
    /\ UNCHANGED <<opts, mReq, visited, answeredBy>>
    /\ UNCHANGED exceptMainVars

\* The next handler of the chain is called with the request.
CallHandler ==
    /\ mPc = "serving"
    /\ visited' = Append(visited, chain[mPos])
    /\ IF Answers(chain[mPos], opts, mReq)
       THEN /\ answeredBy' = chain[mPos]
            /\ mPc' = "done"
            /\ UNCHANGED mPos
       ELSE /\ mPos' = mPos + 1
            /\ UNCHANGED <<answeredBy, mPc>>
    /\ UNCHANGED <<opts, chain, mReq>>
    /\ UNCHANGED exceptMainVars

MainNext ==
    \/ BuildChain
    \/ CallHandler

MainSpec == MainInit /\ [][MainNext]_allVars

\* The places of the handler h in the chain.
PlacesOf(h) == {i \in 1..Len(chain) : chain[i] = h}

\* The handler a is in the chain once and before every place of b.
Precedes(a, b) ==
    /\ Cardinality(PlacesOf(a)) = 1
    /\ PlacesOf(b) # {}
    /\ \A i \in PlacesOf(a) : \A j \in PlacesOf(b) : i < j

\* C21: in the chain main built, the health check precedes the logging
\* handler when pings are silenced, and then a health-check request never
\* reaches the logging handler; the logging handler precedes the health check
\* when they are not; with ForceHTTPS the redirect precedes both and without
\* it the chain has no redirect; the proxy is the last handler; and a request
\* reaches the handlers in the chain's order.
C21_ChainOrder ==
    mPc \in {"serving", "done"} =>
        /\ opts.SilencePing =>
               /\ Precedes("healthCheck", "LoggingHandler")
               /\ isHealthCheckRequest(opts, mReq) =>
                      "LoggingHandler" \notin Elements(visited)
        /\ ~opts.SilencePing => Precedes("LoggingHandler", "healthCheck")
        /\ IF opts.ForceHTTPS
           THEN /\ Precedes("redirectToHTTPS", "healthCheck")
                /\ Precedes("redirectToHTTPS", "LoggingHandler")
           ELSE PlacesOf("redirectToHTTPS") = {}
        /\ PlacesOf("oauthproxy") = {Len(chain)}
        /\ visited = SubSeq(chain, 1, Len(visited))

\* C21: with pings silenced and ForceHTTPS set, a health-check request over
\* HTTPS passed the redirect and was answered by the health check.
C21_Witness ==
    /\ mPc = "done"
    /\ opts.SilencePing
    /\ opts.ForceHTTPS
    /\ mReq.path = PingPath
    /\ visited = <<"redirectToHTTPS", "healthCheck">>
    /\ answeredBy = "healthCheck"

\* ------------------------------------------------------ Bitbucket provider

\* The sequences of at most n elements of S.
SeqsUpTo(S, n) == UNION {[1..k -> S] : k \in 0..n}

\* found with any entry of the list taken for the name.
foundAnyName(name, values) == Len(values) > 0

\* The loop over the values of a list: some entry equals the name.
found(name, values) == \E i \in 1..Len(values) : values[i] = name

\* The loop over emails.Values: the email of the first entry marked primary,
\* and the empty string when there is none.
RECURSIVE primaryEmail(_)
primaryEmail(values) ==
    IF values = << >> THEN ""
    ELSE IF Head(values).Primary THEN Head(values).Email
    ELSE primaryEmail(Tail(values))

\* GetEmailAddress from its repository check on, the requests reqs made.
checkRepository(p, a, reqs) ==
    IF p.Repository = ""
    THEN [email |-> primaryEmail(a.emails.values), err |-> "",
          requests |-> reqs, logs |-> << >>]
    ELSE IF a.repositories.err # ""
    THEN [email |-> "", err |-> a.repositories.err,
          requests |-> Append(reqs, "repositories"),
          logs |-> <<"failed checking repository access">>]
    ELSE IF ~found(p.Repository, a.repositories.values)
    THEN [email |-> "", err |-> "",
          requests |-> Append(reqs, "repositories"),
          logs |-> <<"repository access test failed, access denied">>]
    ELSE [email |-> primaryEmail(a.emails.values), err |-> "",
          requests |-> Append(reqs, "repositories"), logs |-> << >>]

\* GetEmailAddress from its team check on, the requests reqs made.
checkTeam(p, a, reqs) ==
    IF p.Team = "" THEN checkRepository(p, a, reqs)
    ELSE IF a.teams.err # ""
    THEN [email |-> "", err |-> a.teams.err,
          requests |-> Append(reqs, "teams"),
          logs |-> <<"failed requesting teams membership">>]
    ELSE IF ~found(p.Team, a.teams.values)
    THEN [email |-> "", err |-> "", requests |-> Append(reqs, "teams"),
          logs |-> <<"team membership test failed, access denied">>]
    ELSE checkRepository(p, a, Append(reqs, "teams"))

\* p.GetEmailAddress(ctx, s), Bitbucket answering a.
GetEmailAddress(p, ctx, a) ==
    IF ctx = "nil"
    THEN [email |-> "", err |-> "net/http: nil Context", requests |-> << >>,
          logs |-> <<"failed building request">>]
    ELSE IF a.emails.err # ""
    THEN [email |-> "", err |-> a.emails.err, requests |-> <<"emails">>,
          logs |-> <<"failed making request">>]
    ELSE checkTeam(p, a, <<"emails">>)

\* The answers to a request: a failure, or a list of at most n of S.
AnswersOf(S, n) ==
    {[err |-> "unexpected status", values |-> << >>]}
        \cup {[err |-> "", values |-> v] : v \in SeqsUpTo(S, n)}

\* A provider with or without a team and a repository, and what Bitbucket
\* will answer.
BitbucketInit ==
    /\ bbProvider \in [Team : {"", "A"}, Repository : {"", "o/r"}]
    /\ bbCtx \in {"set", "nil"}
    /\ bbAnswers \in
           [emails : AnswersOf([Email : {"", "p@b.org"},
                                Primary : BOOLEAN], MaxEmails),
            teams : AnswersOf({"A", "a"}, MaxNames),
            repositories : AnswersOf({"o/r", "o/x"}, MaxNames)]
    /\ bbPc = "ready"
    /\ bbRet = NoEmailReturn
    /\ ExceptBitbucketIdle

\* email, err := p.GetEmailAddress(ctx, s)
CallGetEmailAddress ==
    /\ bbPc = "ready"
    /\ bbPc' = "returned"
    /\ bbRet' = GetEmailAddress(bbProvider, bbCtx, bbAnswers)
    /\ UNCHANGED <<bbProvider, bbCtx, bbAnswers>>
    /\ UNCHANGED exceptBitbucketVars

BitbucketNext == CallGetEmailAddress

BitbucketSpec == BitbucketInit /\ [][BitbucketNext]_allVars

\* The answer was asked for and is a list that has the name.
Passed(answer, name) == answer.err = "" /\ name \in Elements(answer.values)

\* The requests GetEmailAddress makes when none fails and no check denies.
AllRequests ==
    <<"emails">>
        \o (IF bbProvider.Team # "" THEN <<"teams">> ELSE << >>)
        \o (IF bbProvider.Repository # "" THEN <<"repositories">> ELSE << >>)

\* The answer to the request of the name n.
AnswerTo(n) ==
    IF n = "emails" THEN bbAnswers.emails
    ELSE IF n = "teams" THEN bbAnswers.teams
    ELSE bbAnswers.repositories

\* The name the list of the request n has to have.
NameFor(n) == IF n = "teams" THEN bbProvider.Team ELSE bbProvider.Repository

\* C22: a returned email that is not empty comes with a nil error, with the
\* team among the teams answered when Team is set and the repository among
\* the repositories answered when Repository is set, and is the email of the
\* first entry marked primary; the requests made are a prefix of emails,
\* teams, repositories in that order; when the last request made failed the
\* email is empty and the error is that failure, when its list lacks the name
\* the email is empty and the error nil, and only then the prefix is cut.
C22_EmailOnlyIfChecksPassed ==
    (bbPc = "returned" /\ bbCtx = "set") =>
        /\ bbRet.requests # << >>
        /\ bbRet.requests = SubSeq(AllRequests, 1, Len(bbRet.requests))
        /\ \A i \in 1..(Len(bbRet.requests) - 1) :
               /\ AnswerTo(bbRet.requests[i]).err = ""
               /\ i > 1 => Passed(AnswerTo(bbRet.requests[i]),
                                  NameFor(bbRet.requests[i]))
        /\ bbRet.email # "" =>
               /\ bbRet.err = ""
               /\ bbRet.requests = AllRequests
               /\ bbProvider.Team # "" =>
                      Passed(bbAnswers.teams, bbProvider.Team)
               /\ bbProvider.Repository # "" =>
                      Passed(bbAnswers.repositories, bbProvider.Repository)
               /\ \E i \in 1..Len(bbAnswers.emails.values) :
                      /\ bbAnswers.emails.values[i].Primary
                      /\ bbAnswers.emails.values[i].Email = bbRet.email
                      /\ \A j \in 1..(i - 1) :
                             ~bbAnswers.emails.values[j].Primary
        /\ AnswerTo(bbRet.requests[Len(bbRet.requests)]).err # "" =>
               /\ bbRet.email = ""
               /\ bbRet.err = AnswerTo(bbRet.requests[Len(bbRet.requests)]).err
        /\ AnswerTo(bbRet.requests[Len(bbRet.requests)]).err = "" =>
               /\ bbRet.err = ""
               /\ Len(bbRet.requests) < Len(AllRequests) =>
                      /\ Len(bbRet.requests) > 1
                      /\ bbRet.email = ""
                      /\ ~Passed(AnswerTo(bbRet.requests[Len(bbRet.requests)]),
                                 NameFor(bbRet.requests[Len(bbRet.requests)]))

\* C22: with a team and a repository set and both checks passed, the email
\* returned is that of the second entry, the first one marked primary.
C22_Witness ==
    /\ bbPc = "returned"
    /\ bbProvider = [Team |-> "A", Repository |-> "o/r"]
    /\ bbAnswers.teams.values = <<"a", "A">>
    /\ bbRet.requests = <<"emails", "teams", "repositories">>
    /\ Len(bbAnswers.emails.values) = 2
    /\ ~bbAnswers.emails.values[1].Primary
    /\ bbRet.email = bbAnswers.emails.values[2].Email
    /\ bbRet.email # ""

\* ------------------------------------------------------- Client secret

\* errors.New("could not read client secret file"), its text by character.
CouldNotRead ==
    <<"c", "o", "u", "l", "d", " ", "n", "o", "t", " ", "r", "e", "a", "d",
      " ", "c", "l", "i", "e", "n", "t", " ", "s", "e", "c", "r", "e", "t",
      " ", "f", "i", "l", "e">>

\* The names of the files: /s, /k and file.
FileNames == {<<"/", "s">>, <<"/", "k">>, <<"f", "i", "l", "e">>}

\* What a file is: one that cannot be read, or its bytes.
FileStates ==
    {[err |-> "permission denied", data |-> << >>]}
        \cup {[err |-> "", data |-> d] : d \in {<<"s">>, <<"t", "\n">>}}

\* ioutil.ReadFile(name)
ReadFile(files, name) ==
    IF name \in DOMAIN files THEN files[name]
    ELSE [err |-> "no such file or directory", data |-> << >>]

\* GetClientSecret reading the file whenever one is configured.
GetClientSecretFileFirst(p, files) ==
    IF p.ClientSecretFile = << >>
    THEN [secret |-> p.ClientSecret, err |-> << >>, reads |-> << >>,
          logs |-> << >>]
    ELSE IF ReadFile(files, p.ClientSecretFile).err # ""
    THEN [secret |-> << >>, err |-> CouldNotRead,
          reads |-> <<p.ClientSecretFile>>,
          logs |-> <<[format |-> "error reading client secret file %s: %s",
                      args |-> <<p.ClientSecretFile,
                                 ReadFile(files, p.ClientSecretFile).err>>]>>]
    ELSE [secret |-> ReadFile(files, p.ClientSecretFile).data, err |-> << >>,
          reads |-> <<p.ClientSecretFile>>, logs |-> << >>]

\* p.GetClientSecret(), the files being files: the secret and the error
\* returned, the files read and the lines logged.
GetClientSecret(p, files) ==
    IF p.ClientSecret # << >> \/ p.ClientSecretFile = << >>
    THEN [secret |-> p.ClientSecret, err |-> << >>, reads |-> << >>,
          logs |-> << >>]
    ELSE IF ReadFile(files, p.ClientSecretFile).err # ""
    THEN [secret |-> << >>, err |-> CouldNotRead,
          reads |-> <<p.ClientSecretFile>>,
          logs |-> <<[format |-> "error reading client secret file %s: %s",
                      args |-> <<p.ClientSecretFile,
                                 ReadFile(files, p.ClientSecretFile).err>>]>>]
    ELSE [secret |-> ReadFile(files, p.ClientSecretFile).data, err |-> << >>,
          reads |-> <<p.ClientSecretFile>>, logs |-> << >>]

\* A provider with or without an inline secret and a secret file, and the
\* files as they are.
SecretInit ==
    /\ csProvider \in [ClientSecret : {<< >>, <<"s">>},
                       ClientSecretFile : {<< >>} \cup FileNames]
    /\ csFiles \in [FileNames -> FileStates]
    /\ csPc = "ready"
    /\ csRet = NoSecretReturn
    /\ ExceptSecretIdle

\* clientSecret, err := p.GetClientSecret()
CallGetClientSecret ==
    /\ csPc = "ready"
    /\ csPc' = "returned"
    /\ csRet' = GetClientSecret(csProvider, csFiles)
    /\ UNCHANGED <<csProvider, csFiles>>
    /\ UNCHANGED exceptSecretVars

SecretNext == CallGetClientSecret

SecretSpec == SecretInit /\ [][SecretNext]_allVars

\* The provider has an inline secret, or no secret file.
Inline ==
    csProvider.ClientSecret # << >> \/ csProvider.ClientSecretFile = << >>

WordTeam == <<"t", "e", "a", "m">>

WordRepository == <<"r", "e", "p", "o", "s", "i", "t", "o", "r", "y">>

bitbucketDefaultScope == <<"e", "m", "a", "i", "l">>

Space == <<" ">>

\* The Scope a provider is configured with: none, email, email team, teams,
\* repository, team team.
GivenScopes ==
    {<< >>,
     bitbucketDefaultScope,
     bitbucketDefaultScope \o Space \o WordTeam,
     WordTeam \o <<"s">>,
     WordRepository,
     WordTeam \o Space \o WordTeam}

\* The arguments of SetTeam and SetRepository.
Names == {"", "A", "B"}

\* setProviderDefaults, for the scope.
setProviderDefaults(given, defaultScope) ==
    IF given = << >> THEN defaultScope ELSE given

\* SetTeam appending to the scope on every call.
SetTeamAlwaysAppends(p, team) ==
    [p EXCEPT !.Team = team, !.Scope = @ \o Space \o WordTeam]

\* p.SetTeam(team)
SetTeam(p, team) ==
    [p EXCEPT !.Team = team,
              !.Scope = IF ~Contains(@, WordTeam)
                        THEN @ \o Space \o WordTeam ELSE @]

\* p.SetRepository(repository)
SetRepository(p, repository) ==
    [p EXCEPT !.Repository = repository,
              !.Scope = IF ~Contains(@, WordRepository)
                        THEN @ \o Space \o WordRepository ELSE @]

\* NewBitbucketProvider(p), for each configured scope.
ScopeInit ==
    /\ \E given \in GivenScopes :
           /\ scInitial = setProviderDefaults(given, bitbucketDefaultScope)
           /\ scProvider = [Scope |-> scInitial, Team |-> "",
                            Repository |-> ""]
    /\ scCalls = << >>
    /\ ExceptScopeIdle

\* p.SetTeam(team)
CallSetTeam ==
    /\ Len(scCalls) < MaxCalls
    /\ \E team \in Names :
           /\ scProvider' = SetTeam(scProvider, team)
           /\ scCalls' = Append(scCalls, [op |-> "SetTeam", arg |-> team])
    /\ UNCHANGED scInitial
    /\ UNCHANGED exceptScopeVars

\* p.SetRepository(repository)
CallSetRepository ==
    /\ Len(scCalls) < MaxCalls
    /\ \E repository \in Names :
           /\ scProvider' = SetRepository(scProvider, repository)
           /\ scCalls' = Append(scCalls, [op |-> "SetRepository",
                                          arg |-> repository])
    /\ UNCHANGED scInitial
    /\ UNCHANGED exceptScopeVars

ScopeNext == CallSetTeam \/ CallSetRepository

ScopeSpec == ScopeInit /\ [][ScopeNext]_allVars

\* The number of places of the text s where the text sub begins.
Count(s, sub) ==
    Cardinality({i \in 1..(Len(s) - Len(sub) + 1) :
                     SubSeq(s, i, i + Len(sub) - 1) = sub})

\* The places in the calls made of the calls of fn.
CallsOf(fn) == {i \in DOMAIN scCalls : scCalls[i].op = fn}

\* The argument of the last call of fn, and the empty string before any.
LastArg(fn) ==
    IF CallsOf(fn) = {} THEN ""
    ELSE scCalls[CHOOSE i \in CallsOf(fn) : \A j \in CallsOf(fn) : j <= i].arg

\* One more when fn was called and the scope the provider was made with
\* did not have the word, none otherwise.
Added(fn, word) ==
    IF CallsOf(fn) # {} /\ ~Contains(scInitial, word) THEN 1 ELSE 0

\* C24: after any calls of SetTeam and SetRepository the Scope has "team"
\* as many times as initially, and once more exactly when SetTeam was called
\* and the initial Scope did not have it, and the same for "repository" and
\* SetRepository; Team and Repository are the arguments of the last calls;
\* calling either again with the same argument changes nothing; and a call
\* changes the Scope only when the Scope does not have the call's word, by
\* appending a space and the word.
C24_ScopeSetOnce ==
    /\ [](/\ Count(scProvider.Scope, WordTeam)
                 = Count(scInitial, WordTeam) + Added("SetTeam", WordTeam)
          /\ Count(scProvider.Scope, WordRepository)
                 = Count(scInitial, WordRepository)
                       + Added("SetRepository", WordRepository)
          /\ scProvider.Team = LastArg("SetTeam")
          /\ scProvider.Repository = LastArg("SetRepository")
          /\ CallsOf("SetTeam") # {} =>
                 SetTeam(scProvider, scProvider.Team) = scProvider
          /\ CallsOf("SetRepository") # {} =>
                 SetRepository(scProvider, scProvider.Repository) = scProvider)
    /\ [][scProvider'.Scope # scProvider.Scope =>
              \/ /\ scCalls'[Len(scCalls')].op = "SetTeam"
                 /\ ~Contains(scProvider.Scope, WordTeam)
                 /\ scProvider'.Scope = scProvider.Scope \o Space \o WordTeam
              \/ /\ scCalls'[Len(scCalls')].op = "SetRepository"
                 /\ ~Contains(scProvider.Scope, WordRepository)
                 /\ scProvider'.Scope
                        = scProvider.Scope \o Space \o WordRepository]_allVars

\* C24: SetTeam called twice and SetRepository once on a provider made with
\* the default scope: the scope is email team repository, and Team is the
\* second call's argument.
C24_Witness ==
    /\ scInitial = bitbucketDefaultScope
    /\ Len(scCalls) = 3
    /\ scCalls[1] = [op |-> "SetTeam", arg |-> "A"]
    /\ scCalls[2] = [op |-> "SetRepository", arg |-> "A"]
    /\ scCalls[3] = [op |-> "SetTeam", arg |-> "B"]
    /\ scProvider.Team = "B"
    /\ scProvider.Scope
           = bitbucketDefaultScope \o Space \o WordTeam \o Space
                 \o WordRepository

====
